---- MODULE Spec2Model ----
(***************************************************************************)
(* A model of the card-number engine (src/src/generators/card.ts) and of   *)
(* the CSV codec (src/src/file/csv.ts) of playwright-utils.                *)
(*                                                                         *)
(* A JavaScript string is modelled as a sequence of one-character strings, *)
(* so that "4111" is <<"4", "1", "1", "1">>.  Enumeration tags (card type   *)
(* names, program positions) are plain TLA+ strings.                       *)
(***************************************************************************)
EXTENDS Integers, Sequences, FiniteSets, TLC

VARIABLES
  pc,               \* position of the running call
  options,          \* generateCardNumber: the CardOptions argument
  number,           \* generateCardNumber: local `number`
  remainingLength,  \* generateCardNumber: local `remainingLength`
  i,                \* generateCardNumber: loop counter `i`
  rnd,              \* the random source behind Math.random
  card,             \* the card number string the caller holds
  res,              \* what the last call returned (or that it threw)
  data,             \* CSV: the table handed to stringifyCSV
  csvOptions,       \* CSV: the CSVOptions argument
  content,          \* CSV: the text produced by stringifyCSV / read by parseCSV / escaped
  parsed,           \* CSV: the rows returned by parseCSV
  file,             \* CSV: the file on disk that readCSV / validateCSV is pointed at
  validation,       \* CSV: the CSVValidationOptions argument of validateCSV
  scan,             \* CSV: the locals of the running parseLine call
  password,         \* the password handed to validatePasswordStrength
  retrying,         \* retry: its options, the run of fn and what has happened so far
  viewport,         \* ViewportHelpers: the page's viewport and the breakpoints tested
  html,             \* html: the string handed to escapeHtml / unescapeHtml
  network,          \* NetworkHelpers.collectResponses: the page's handlers and responses
  download          \* waitForDownload: the clock, the file on disk, the poller

vars == <<pc, options, number, remainingLength, i, rnd, card, res,
          data, csvOptions, content, parsed, file, validation, scan,
          password, retrying, viewport, html, network, download>>

cardVars == <<options, number, remainingLength, i, rnd, card, res>>
csvVars == <<data, csvOptions, content, parsed>>
fileVars == <<file, validation, scan>>
utilVars == <<password, retrying, viewport, html, network, download>>

(***************************************************************************)
(* Bounds of the model.                                                    *)
(***************************************************************************)
\* The random source returns, at its k-th draw of a digit, (a + b*k) % 10
\* for some a in 0..9 and some stride b in 0..MaxStride.
MaxStride == 1
\* Input strings are a head followed by at most MaxTapeLen generated digits.
MaxTapeLen == 16
\* maskCardNumber is called with visibleDigits in 0..MaxVisible.
MaxVisible == 5
\* A table handed to stringifyCSV has at most MaxCells cells.
MaxCells == 3
\* A line handed to parseLine on its own has at most MaxLineLen characters.
MaxLineLen == 5
\* A file that is read has at most MaxLines lines.
MaxLines == 3
\* A value handed to escapeField on its own has at most MaxFieldLen characters.
MaxFieldLen == 3
\* A password repeats a pattern of at most MaxPatternLen characters and has
\* at most MaxPasswordLen characters.
MaxPatternLen == 4
MaxPasswordLen == 17
\* retry is asked for at most MaxAttempts attempts.
MaxAttempts == 3

\* JavaScript values that are not strings.
Undefined == "<undefined>"
Null == "<null>"
NoResult == [op |-> "none"]

(***************************************************************************)
(* Strings.                                                                *)
(***************************************************************************)
DigitChars == <<"0", "1", "2", "3", "4", "5", "6", "7", "8", "9">>

\* (n).toString() for n in 0..9
DigitToString(n) == DigitChars[n + 1]

\* parseInt(c, 10) for a digit character c
ParseInt(c) == CHOOSE d \in 0..9 : DigitChars[d + 1] = c

\* the regular expression class \d
IsDigit(c) == \E d \in 0..9 : DigitChars[d + 1] = c

\* s.replace(/\D/g, '')
StripNonDigits(s) == SelectSeq(s, IsDigit)

\* s.startsWith(p)
StartsWith(s, p) == Len(p) <= Len(s) /\ SubSeq(s, 1, Len(p)) = p

\* c.repeat(n) for n >= 0
Repeat(c, n) == [k \in 1..n |-> c]

Max(a, b) == IF a >= b THEN a ELSE b

Min(a, b) == IF a <= b THEN a ELSE b

IsSpace(c) == c \in {" ", "\t", "\n", "\r"}

RECURSIVE TrimStart(_)
TrimStart(s) ==
  IF s # <<>> /\ IsSpace(Head(s)) THEN TrimStart(Tail(s)) ELSE s

RECURSIVE TrimEnd(_)
TrimEnd(s) ==
  IF s # <<>> /\ IsSpace(s[Len(s)]) THEN TrimEnd(SubSeq(s, 1, Len(s) - 1)) ELSE s

\* s.trim()
Trim(s) == TrimEnd(TrimStart(s))

(***************************************************************************)
(* Card tables.                                                            *)
(***************************************************************************)
CardTypes == <<"visa", "mastercard", "amex", "discover">>

\* A table in which discover also has the prefix 5.
MutantCardPrefixes ==
  [visa |-> << <<"4">> >>,
   mastercard |-> << <<"5", "1">>, <<"5", "2">>, <<"5", "3">>, <<"5", "4">>,
                     <<"5", "5">>, <<"2", "2", "2", "1">>, <<"2", "7", "2", "0">> >>,
   amex |-> << <<"3", "4">>, <<"3", "7">> >>,
   discover |-> << <<"6", "0", "1", "1">>, <<"6", "4", "4">>, <<"6", "4", "5">>,
                   <<"6", "4", "6">>, <<"6", "4", "7">>, <<"6", "4", "8">>,
                   <<"6", "4", "9">>, <<"6", "5">>, <<"5">> >>]

CARD_PREFIXES ==
  [visa |-> << <<"4">> >>,
   mastercard |-> << <<"5", "1">>, <<"5", "2">>, <<"5", "3">>, <<"5", "4">>,
                     <<"5", "5">>, <<"2", "2", "2", "1">>, <<"2", "7", "2", "0">> >>,
   amex |-> << <<"3", "4">>, <<"3", "7">> >>,
   discover |-> << <<"6", "0", "1", "1">>, <<"6", "4", "4">>, <<"6", "4", "5">>,
                   <<"6", "4", "6">>, <<"6", "4", "7">>, <<"6", "4", "8">>,
                   <<"6", "4", "9">>, <<"6", "5">> >>]

CARD_LENGTHS == [visa |-> 16, mastercard |-> 16, amex |-> 15, discover |-> 16]

(***************************************************************************)
(* The random source.  randomInt(0, 9) returns the next digit of the tape   *)
(* selected at the start; randomElement picks any index.                   *)
(***************************************************************************)
RandomSources == [a : 0..9, b : 0..MaxStride, k : {0}]

randomInt09(r) == (r.a + r.b * r.k) % 10

Drawn(r) == [r EXCEPT !.k = r.k + 1]

(***************************************************************************)
(* Luhn.                                                                   *)
(***************************************************************************)
\* The loop of luhnCheck, from index `at` (1-based) down to 1.
RECURSIVE LuhnLoop(_, _, _, _)
LuhnLoop(digits, at, sum, isEven) ==
  IF at < 1 THEN sum
  ELSE LET digit == ParseInt(digits[at])
           doubled == IF digit * 2 > 9 THEN digit * 2 - 9 ELSE digit * 2
       IN  LuhnLoop(digits, at - 1,
                    sum + (IF isEven THEN doubled ELSE digit), ~isEven)

luhnCheck(digits) == LuhnLoop(digits, Len(digits), 0, FALSE) % 10 = 0

\* The loop of calculateLuhnCheckDigit: the first digit in from..upTo that
\* makes the number pass, or 10 when the loop falls through.
RECURSIVE CheckDigitLoop(_, _, _)
CheckDigitLoop(partialNumber, digit, upTo) ==
  IF digit > upTo THEN 10
  ELSE IF luhnCheck(Append(partialNumber, DigitToString(digit))) THEN digit
  ELSE CheckDigitLoop(partialNumber, digit + 1, upTo)

\* A loop that stops one digit early (digit < 9).
MutantCheckDigit(partialNumber) ==
  LET d == CheckDigitLoop(partialNumber, 0, 8)
  IN  [value |-> IF d <= 9 THEN DigitToString(d) ELSE "0", fallback |-> d > 9]

\* calculateLuhnCheckDigit, with whether it returned through the fallback
calculateLuhnCheckDigit(partialNumber) ==
  LET d == CheckDigitLoop(partialNumber, 0, 9)
  IN  [value |-> IF d <= 9 THEN DigitToString(d) ELSE "0", fallback |-> d > 9]

(***************************************************************************)
(* Validation, classification, formatting and masking of a card number.    *)
(***************************************************************************)
\* An isValidCardNumber that accepts at most 18 digits.
MutantIsValidCardNumber(s) ==
  LET digits == StripNonDigits(s)
  IN  IF Len(digits) < 13 \/ Len(digits) >= 19 THEN FALSE ELSE luhnCheck(digits)

isValidCardNumber(s) ==
  LET digits == StripNonDigits(s)
  IN  IF Len(digits) < 13 \/ Len(digits) > 19 THEN FALSE ELSE luhnCheck(digits)

\* the inner loop of getCardType: some prefix of the list starts the digits
MatchesPrefix(digits, prefixes) ==
  \E j \in 1..Len(prefixes) : StartsWith(digits, prefixes[j])

\* the outer loop of getCardType over Object.entries(CARD_PREFIXES), from
\* the t-th entry on, the entries taken in the order `order`
RECURSIVE TypeLoop(_, _, _)
TypeLoop(digits, order, t) ==
  IF t > Len(order) THEN Null
  ELSE IF MatchesPrefix(digits, CARD_PREFIXES[order[t]]) THEN order[t]
  ELSE TypeLoop(digits, order, t + 1)

\* A getCardType whose outer loop stops one entry early.
MutantGetCardType(s) ==
  TypeLoop(StripNonDigits(s), SubSeq(CardTypes, 1, Len(CardTypes) - 1), 1)

getCardType(s) == TypeLoop(StripNonDigits(s), CardTypes, 1)

\* digits.replace(/(\d{4})(\d{6})(\d{5})/, '$1 $2 $3') on a string of digits:
\* the first match, if any, starts at the first character.
GroupAmex(digits) ==
  IF Len(digits) < 15 THEN digits
  ELSE SubSeq(digits, 1, 4) \o <<" ">> \o SubSeq(digits, 5, 10) \o <<" ">>
       \o SubSeq(digits, 11, 15) \o SubSeq(digits, 16, Len(digits))

\* digits.replace(/(\d{4})(?=\d)/g, '$1 ') on a string of digits
RECURSIVE GroupFours(_)
GroupFours(digits) ==
  IF Len(digits) <= 4 THEN digits
  ELSE SubSeq(digits, 1, 4) \o <<" ">> \o GroupFours(SubSeq(digits, 5, Len(digits)))

\* A formatCardNumber that ignores the type it is given.
MutantFormatCardNumber(s, type) ==
  LET digits == StripNonDigits(s)
      detected == getCardType(digits)
  IN  IF detected = "amex" THEN GroupAmex(digits) ELSE Trim(GroupFours(digits))

\* formatCardNumber(number, type); type may be Undefined
formatCardNumber(s, type) ==
  LET digits == StripNonDigits(s)
      detected == getCardType(digits)
      cardType == IF type # Undefined THEN type
                  ELSE IF detected # Null THEN detected ELSE "visa"
  IN  IF cardType = "amex" THEN GroupAmex(digits) ELSE Trim(GroupFours(digits))

\* s.slice(-n): the last n characters, and the whole string when n is 0
SliceLast(s, n) ==
  IF n = 0 \/ n >= Len(s) THEN s ELSE SubSeq(s, Len(s) - n + 1, Len(s))

\* maskCardNumber(number, visibleDigits): '*'.repeat throws a RangeError on
\* a negative count
maskCardNumber(s, visibleDigits) ==
  LET digits == StripNonDigits(s)
  IN  IF Len(digits) - visibleDigits < 0
      THEN [threw |-> TRUE, value |-> Undefined]
      ELSE [threw |-> FALSE,
            value |-> formatCardNumber(Repeat("*", Len(digits) - visibleDigits)
                                       \o SliceLast(digits, visibleDigits),
                                       Undefined)]

(***************************************************************************)
(* Card numbers a caller may hold without having generated them: a head    *)
(* (a card prefix, a near miss of one, or nothing) followed by a run of    *)
(* digits, written plain, with a blank after every fourth character, or    *)
(* with a leading blank and dashes.                                        *)
(***************************************************************************)
AllPrefixes ==
  UNION {{CARD_PREFIXES[CardTypes[t]][j] : j \in 1..Len(CARD_PREFIXES[CardTypes[t]])} :
           t \in 1..Len(CardTypes)}

Heads ==
  AllPrefixes \cup {<<>>, <<"9">>, <<"6", "0">>, <<"6", "4">>, <<"2", "2", "2">>}

DigitRun(a, b, len) == [k \in 1..len |-> DigitToString((a + b * (k - 1)) % 10)]

RECURSIVE Separated(_, _)
Separated(s, sep) ==
  IF Len(s) <= 4 THEN s
  ELSE SubSeq(s, 1, 4) \o <<sep>> \o Separated(SubSeq(s, 5, Len(s)), sep)

Written(s, style) ==
  CASE style = "plain" -> s
    [] style = "spaced" -> Separated(s, " ")
    [] style = "dashed" -> <<" ">> \o Separated(s, "-")

CardInputs ==
  {Written(h \o DigitRun(a, b, len), style) :
     h \in Heads, a \in 0..9, b \in 0..MaxStride, len \in 0..MaxTapeLen,
     style \in {"plain", "spaced", "dashed"}}

(***************************************************************************)
(* generateCardNumber, step by step.                                       *)
(***************************************************************************)
TypeOf(opts) == IF opts.type = Undefined THEN "visa" ELSE opts.type

\* A remaining length that forgets the check digit.
MutantRemainingLength(type, prefix) == CARD_LENGTHS[type] - Len(prefix)

\* line 45: the number of middle digits to draw
RemainingLength(type, prefix) == CARD_LENGTHS[type] - Len(prefix) - 1

\* lines 37-45: defaults, the table lookups and the random prefix
\* (options.valid holds the value after the default `valid = true`)
GenerateStart ==
  /\ pc = "generate"
  /\ \E idx \in 1..Len(CARD_PREFIXES[TypeOf(options)]) :
       LET prefix == CARD_PREFIXES[TypeOf(options)][idx]
       IN  /\ number' = prefix
           /\ remainingLength' = RemainingLength(TypeOf(options), prefix)
  /\ i' = 0
  /\ pc' = "middle"
  /\ UNCHANGED <<options, rnd, card, res>>
  /\ UNCHANGED csvVars
  /\ UNCHANGED fileVars
  /\ UNCHANGED utilVars

\* lines 47-49: one turn of the loop that draws the middle digits
GenerateMiddle ==
  /\ pc = "middle"
  /\ i < remainingLength
  /\ number' = Append(number, DigitToString(randomInt09(rnd)))
  /\ rnd' = Drawn(rnd)
  /\ i' = i + 1
  /\ UNCHANGED <<pc, options, remainingLength, card, res>>
  /\ UNCHANGED csvVars
  /\ UNCHANGED fileVars
  /\ UNCHANGED utilVars

\* A last digit with the two branches of `if (valid)` exchanged.
MutantLastDigit(partialNumber, valid, r) ==
  IF valid THEN DigitToString(randomInt09(r))
  ELSE calculateLuhnCheckDigit(partialNumber).value

\* lines 51-58: the last digit generateCardNumber appends
LastDigit(partialNumber, valid, r) ==
  IF valid THEN calculateLuhnCheckDigit(partialNumber).value
  ELSE DigitToString(randomInt09(r))

\* lines 51-60: the last digit, and the return to the caller
GenerateFinish ==
  /\ pc = "middle"
  /\ i >= remainingLength
  /\ number' = Append(number, LastDigit(number, options.valid, rnd))
  /\ rnd' = IF options.valid THEN rnd ELSE Drawn(rnd)
  /\ card' = number'
  /\ pc' = "ready"
  /\ UNCHANGED <<options, remainingLength, i, res>>
  /\ UNCHANGED csvVars
  /\ UNCHANGED fileVars
  /\ UNCHANGED utilVars

(***************************************************************************)
(* One call on the card number the caller holds.                           *)
(***************************************************************************)
Returned(op, arg, value) ==
  [op |-> op, arg |-> arg, threw |-> FALSE, value |-> value]

CallIsValidCardNumber ==
  /\ pc = "ready"
  /\ res' = Returned("isValidCardNumber", Undefined, isValidCardNumber(card))
  /\ pc' = "returned"
  /\ UNCHANGED <<options, number, remainingLength, i, rnd, card>>
  /\ UNCHANGED csvVars
  /\ UNCHANGED fileVars
  /\ UNCHANGED utilVars

CallGetCardType ==
  /\ pc = "ready"
  /\ res' = Returned("getCardType", Undefined, getCardType(card))
  /\ pc' = "returned"
  /\ UNCHANGED <<options, number, remainingLength, i, rnd, card>>
  /\ UNCHANGED csvVars
  /\ UNCHANGED fileVars
  /\ UNCHANGED utilVars

CallFormatCardNumber ==
  /\ pc = "ready"
  /\ \E type \in {CardTypes[t] : t \in 1..Len(CardTypes)} \cup {Undefined} :
       res' = Returned("formatCardNumber", type, formatCardNumber(card, type))
  /\ pc' = "returned"
  /\ UNCHANGED <<options, number, remainingLength, i, rnd, card>>
  /\ UNCHANGED csvVars
  /\ UNCHANGED fileVars
  /\ UNCHANGED utilVars

CallMaskCardNumber ==
  /\ pc = "ready"
  /\ \E visibleDigits \in 0..MaxVisible :
       LET r == maskCardNumber(card, visibleDigits)
       IN  res' = [op |-> "maskCardNumber", arg |-> visibleDigits,
                   threw |-> r.threw, value |-> r.value]
  /\ pc' = "returned"
  /\ UNCHANGED <<options, number, remainingLength, i, rnd, card>>
  /\ UNCHANGED csvVars
  /\ UNCHANGED fileVars
  /\ UNCHANGED utilVars

\* calculateLuhnCheckDigit on a string of digits
CallCalculateLuhnCheckDigit ==
  /\ pc = "ready"
  /\ StripNonDigits(card) = card
  /\ res' = Returned("calculateLuhnCheckDigit", Undefined, calculateLuhnCheckDigit(card))
  /\ pc' = "returned"
  /\ UNCHANGED <<options, number, remainingLength, i, rnd, card>>
  /\ UNCHANGED csvVars
  /\ UNCHANGED fileVars
  /\ UNCHANGED utilVars

NoOptions == [type |-> Undefined, valid |-> TRUE]
NoRandom == [a |-> 0, b |-> 0, k |-> 0]

\* no file is involved and no parseLine call is running
\* none of the other helpers is in use, but the one named
UtilIdleBut(name) ==
  /\ IF name = "password" THEN TRUE ELSE password = NoResult
  /\ IF name = "retrying" THEN TRUE ELSE retrying = NoResult
  /\ IF name = "viewport" THEN TRUE ELSE viewport = NoResult
  /\ IF name = "html" THEN TRUE ELSE html = NoResult
  /\ IF name = "network" THEN TRUE ELSE network = NoResult
  /\ IF name = "download" THEN TRUE ELSE download = NoResult

UtilIdle == UtilIdleBut("none")

FileIdle ==
  /\ file = NoResult
  /\ validation = NoResult
  /\ scan = NoResult

CsvIdle ==
  /\ UtilIdle
  /\ data = <<>>
  /\ csvOptions = NoResult
  /\ content = <<>>
  /\ parsed = <<>>
  /\ FileIdle

InitCard ==
  /\ \/ /\ pc = "generate"
        /\ options \in [type : {CardTypes[t] : t \in 1..Len(CardTypes)} \cup {Undefined},
                        valid : BOOLEAN]
        /\ rnd \in RandomSources
        /\ card = <<>>
     \/ /\ pc = "ready"
        /\ options = NoOptions
        /\ rnd = NoRandom
        /\ card \in CardInputs
  /\ number = <<>>
  /\ remainingLength = 0
  /\ i = 0
  /\ res = NoResult
  /\ CsvIdle

NextCard ==
  \/ GenerateStart
  \/ GenerateMiddle
  \/ GenerateFinish
  \/ CallIsValidCardNumber
  \/ CallGetCardType
  \/ CallFormatCardNumber
  \/ CallMaskCardNumber
  \/ CallCalculateLuhnCheckDigit

SpecCard == InitCard /\ [][NextCard]_vars

(***************************************************************************)
(* Properties of the card-number engine.                                   *)
(***************************************************************************)
\* The caller holds a number that generateCardNumber returned.
Generated == pc \in {"ready", "returned"} /\ number # <<>> /\ card = number

\* C1: for every card type and every outcome of the random choices, the
\* number generateCardNumber returns with valid = true makes
\* isValidCardNumber return true.
C1_GeneratedValidNumberPasses ==
  (Generated /\ options.valid /\ pc = "returned" /\ res.op = "isValidCardNumber")
    => res.value = TRUE

C1_Witness ==
  /\ Generated /\ options.valid /\ options.type = "amex"
  /\ pc = "returned" /\ res.op = "isValidCardNumber" /\ res.value = TRUE

\* C2: for every card type and both values of valid, the returned string
\* holds decimal digits only and has 15 characters for amex, 16 otherwise.
C2_GeneratedLength ==
  Generated =>
    /\ \A k \in 1..Len(card) : IsDigit(card[k])
    /\ Len(card) = IF TypeOf(options) = "amex" THEN 15 ELSE 16

C2_Witness ==
  /\ Generated /\ ~options.valid /\ options.type = "discover"
  /\ StartsWith(card, <<"6", "0", "1", "1">>) /\ Len(card) = 16

\* C3: for a string p of digits exactly one digit d makes p followed by d
\* pass the Luhn check, calculateLuhnCheckDigit(p) returns it, and not
\* through the fallback after its loop.
C3_UniqueCheckDigit ==
  (pc = "returned" /\ res.op = "calculateLuhnCheckDigit") =>
    /\ Cardinality({d \in 0..9 : luhnCheck(Append(card, DigitToString(d)))}) = 1
    /\ luhnCheck(Append(card, res.value.value))
    /\ ~res.value.fallback

C3_Witness ==
  /\ pc = "returned" /\ res.op = "calculateLuhnCheckDigit"
  /\ Len(card) = 18 /\ res.value.value = "9" /\ ~res.value.fallback

\* The reference Luhn total: the digit at position p from the right
\* (rightmost is 0) counts doubled, less 9 when above 9, if p is odd.
RECURSIVE ReferenceTotal(_, _)
ReferenceTotal(digits, p) ==
  IF p >= Len(digits) THEN 0
  ELSE LET v == ParseInt(digits[Len(digits) - p])
           term == IF p % 2 = 0 THEN v ELSE IF 2 * v > 9 THEN 2 * v - 9 ELSE 2 * v
       IN  term + ReferenceTotal(digits, p + 1)

\* C4: isValidCardNumber returns a boolean, without throwing, that is true
\* exactly when the input has 13 to 19 digits and their reference Luhn
\* total is a multiple of 10.
C4_IsValidMatchesReference ==
  (pc = "returned" /\ res.op = "isValidCardNumber") =>
    LET digits == StripNonDigits(card)
    IN  /\ ~res.threw
        /\ res.value \in BOOLEAN
        /\ res.value = (/\ Len(digits) >= 13
                        /\ Len(digits) <= 19
                        /\ ReferenceTotal(digits, 0) % 10 = 0)

C4_Witness ==
  /\ pc = "returned" /\ res.op = "isValidCardNumber" /\ res.value = TRUE
  /\ Len(StripNonDigits(card)) = 19 /\ StripNonDigits(card) # card

\* The types one of whose prefixes starts the digits, as indices of the
\* declaration order.
MatchingTypes(digits) ==
  {t \in 1..Len(CardTypes) :
     \E p \in AllPrefixes :
       /\ \E j \in 1..Len(CARD_PREFIXES[CardTypes[t]]) : CARD_PREFIXES[CardTypes[t]][j] = p
       /\ Len(p) <= Len(digits)
       /\ \A k \in 1..Len(p) : digits[k] = p[k]}

\* C5: getCardType returns the first type in declaration order with a
\* prefix that starts the digits of the input, null when there is none,
\* and never throws.
C5_FirstMatchingType ==
  (pc = "returned" /\ res.op = "getCardType") =>
    LET hits == MatchingTypes(StripNonDigits(card))
    IN  /\ ~res.threw
        /\ hits = {} => res.value = Null
        /\ hits # {} => res.value = CardTypes[CHOOSE t \in hits : \A u \in hits : t <= u]

C5_Witness ==
  /\ pc = "returned" /\ res.op = "getCardType" /\ res.value = "discover"
  /\ StripNonDigits(card) # card

\* The characters of s that are not blanks.
NonSpace(s) == SelectSeq(s, LAMBDA c : c # " ")

\* C6: for 0 < N < n, maskCardNumber shows the first n - N digit positions
\* as '*' and the last N digits unchanged.
C6_MaskKeepsEveryPosition ==
  (pc = "returned" /\ res.op = "maskCardNumber"
     /\ 0 < res.arg /\ res.arg < Len(StripNonDigits(card))) =>
    LET digits == StripNonDigits(card)
        n == Len(digits)
    IN  /\ ~res.threw
        /\ NonSpace(res.value) =
             [k \in 1..n |-> IF k <= n - res.arg THEN "*" ELSE digits[k]]

\* C7: isValidCardNumber, getCardType, formatCardNumber and maskCardNumber
\* never throw, whatever the input string.
C7_NeverThrows ==
  (pc = "returned"
     /\ res.op \in {"isValidCardNumber", "getCardType", "formatCardNumber", "maskCardNumber"})
    => ~res.threw

\* The lengths of the groups of s between blanks.
RECURSIVE GroupLengths(_, _)
GroupLengths(s, run) ==
  IF s = <<>> THEN <<run>>
  ELSE IF Head(s) = " " THEN <<run>> \o GroupLengths(Tail(s), 0)
  ELSE GroupLengths(Tail(s), run + 1)

\* C8: formatCardNumber only inserts single blanks between groups of the
\* input's digits; 15 digits of type amex (given or detected) are grouped
\* 4-6-5 and 16 digits of another type 4-4-4-4.
C8_FormatGroups ==
  (pc = "returned" /\ res.op = "formatCardNumber") =>
    LET digits == StripNonDigits(card)
        out == res.value
        amex == \/ res.arg = "amex"
                \/ /\ res.arg = Undefined
                   /\ \/ StartsWith(digits, <<"3", "4">>)
                      \/ StartsWith(digits, <<"3", "7">>)
    IN  /\ NonSpace(out) = digits
        /\ \A k \in 1..Len(GroupLengths(out, 0)) :
             GroupLengths(out, 0)[k] > 0 \/ digits = <<>>
        /\ (Len(digits) = 15 /\ amex) => GroupLengths(out, 0) = <<4, 6, 5>>
        /\ (Len(digits) = 16 /\ ~amex) => GroupLengths(out, 0) = <<4, 4, 4, 4>>

C8_Witness ==
  /\ pc = "returned" /\ res.op = "formatCardNumber" /\ res.arg = "amex"
  /\ Len(StripNonDigits(card)) = 15
  /\ ~StartsWith(StripNonDigits(card), <<"3">>)
  /\ GroupLengths(res.value, 0) = <<4, 6, 5>>

(***************************************************************************)
(* The CSV codec.  A row is a sequence of [k |-> key, v |-> value] pairs   *)
(* with distinct keys, in the order Object.keys lists them: keys that are  *)
(* array indices ("0", "7", "2024") first, in ascending numeric order,     *)
(* then the other keys in insertion order.  A table is a sequence of rows. *)
(***************************************************************************)
\* cell values that are not strings
UndefinedValue == <<Undefined>>
NullValue == <<Null>>

\* Object.keys(row)
Keys(row) == [c \in 1..Len(row) |-> row[c].k]

HasKey(row, key) == \E c \in 1..Len(row) : row[c].k = key

\* row[key]
Get(row, key) ==
  IF HasKey(row, key) THEN row[CHOOSE c \in 1..Len(row) : row[c].k = key].v
  ELSE UndefinedValue

\* the key is a canonical array index: digits without a leading zero
IsIndexKey(key) ==
  /\ key # <<>>
  /\ \A c \in 1..Len(key) : IsDigit(key[c])
  /\ (Len(key) = 1 \/ key[1] # "0")

\* the number an array-index key denotes
RECURSIVE IndexValue(_)
IndexValue(key) ==
  IF key = <<>> THEN 0
  ELSE 10 * IndexValue(SubSeq(key, 1, Len(key) - 1)) + ParseInt(key[Len(key)])

\* row[key] = value: an existing key keeps its place, a new array-index key
\* goes among the array-index keys, any other new key goes last
Put(row, key, value) ==
  IF HasKey(row, key)
  THEN [c \in 1..Len(row) |-> IF row[c].k = key THEN [k |-> key, v |-> value] ELSE row[c]]
  ELSE IF IsIndexKey(key)
  THEN LET before == {c \in 1..Len(row) :
                        IsIndexKey(row[c].k) /\ IndexValue(row[c].k) < IndexValue(key)}
           at == Cardinality(before)
       IN  SubSeq(row, 1, at) \o <<[k |-> key, v |-> value]>> \o SubSeq(row, at + 1, Len(row))
  ELSE Append(row, [k |-> key, v |-> value])

\* s.includes(sub)
Includes(s, sub) ==
  \E k \in 1..(Len(s) - Len(sub) + 1) : SubSeq(s, k, k + Len(sub) - 1) = sub

\* list.join(sep)
RECURSIVE Join(_, _)
Join(list, sep) ==
  IF list = <<>> THEN <<>>
  ELSE IF Len(list) = 1 THEN list[1]
  ELSE list[1] \o sep \o Join(Tail(list), sep)

\* value.replace(/"/g, '""')
RECURSIVE DoubleQuotes(_)
DoubleQuotes(value) ==
  IF value = <<>> THEN <<>>
  ELSE IF Head(value) = "\"" THEN <<"\"", "\"">> \o DoubleQuotes(Tail(value))
  ELSE <<Head(value)>> \o DoubleQuotes(Tail(value))

\* A field is quoted for the delimiter, a quote or a line feed only.
MutantEscapeField(value, delimiter) ==
  LET needsQuoting == \/ Includes(value, delimiter)
                      \/ Includes(value, <<"\"">>)
                      \/ Includes(value, <<"\n">>)
  IN  IF needsQuoting THEN <<"\"">> \o DoubleQuotes(value) \o <<"\"">> ELSE value

escapeField(value, delimiter) ==
  LET needsQuoting == \/ Includes(value, delimiter)
                      \/ Includes(value, <<"\"">>)
                      \/ Includes(value, <<"\n">>)
                      \/ Includes(value, <<"\r">>)
  IN  IF needsQuoting THEN <<"\"">> \o DoubleQuotes(value) \o <<"\"">> ELSE value

\* A cell text that blanks null only.
MutantCellText(value) == IF value = NullValue THEN <<>> ELSE value

\* value === null || value === undefined ? '' : String(value)
CellText(value) == IF value \in {NullValue, UndefinedValue} THEN <<>> ELSE value

stringifyCSV(table, opts) ==
  IF Len(table) = 0 THEN <<>>
  ELSE LET headers == Keys(table[1])
           headerLine == Join([c \in 1..Len(headers) |->
                                 escapeField(headers[c], opts.delimiter)],
                              opts.delimiter)
           rowLine(row) == Join([c \in 1..Len(headers) |->
                                   escapeField(CellText(Get(row, headers[c])),
                                               opts.delimiter)],
                                opts.delimiter)
           rowLines == [r \in 1..Len(table) |-> rowLine(table[r])]
       IN  Join((IF opts.hasHeaders THEN <<headerLine>> ELSE <<>>) \o rowLines, <<"\n">>)

\* content.split(/\r?\n/), from index k on, `current` being the line so far
RECURSIVE SplitLoop(_, _, _)
SplitLoop(text, k, current) ==
  IF k > Len(text) THEN <<current>>
  ELSE IF text[k] = "\n" THEN <<current>> \o SplitLoop(text, k + 1, <<>>)
  ELSE IF text[k] = "\r" /\ k < Len(text) /\ text[k + 1] = "\n"
       THEN <<current>> \o SplitLoop(text, k + 2, <<>>)
  ELSE SplitLoop(text, k + 1, Append(current, text[k]))

SplitLines(text) == SplitLoop(text, 1, <<>>)

\* the loop of parseLine, at index k (1-based) of the line
RECURSIVE ParseLoop(_, _, _, _, _, _)
ParseLoop(line, delimiter, k, current, inQuotes, result) ==
  IF k > Len(line) THEN Append(result, Trim(current))
  ELSE LET char == line[k]
           nextIsQuote == k < Len(line) /\ line[k + 1] = "\""
       IN  IF inQuotes
           THEN IF char = "\""
                THEN IF nextIsQuote
                     THEN ParseLoop(line, delimiter, k + 2, Append(current, "\""), TRUE, result)
                     ELSE ParseLoop(line, delimiter, k + 1, current, FALSE, result)
                ELSE ParseLoop(line, delimiter, k + 1, Append(current, char), TRUE, result)
           ELSE IF char = "\""
                THEN ParseLoop(line, delimiter, k + 1, current, TRUE, result)
                ELSE IF <<char>> = delimiter
                THEN ParseLoop(line, delimiter, k + 1, <<>>, FALSE,
                               Append(result, Trim(current)))
                ELSE ParseLoop(line, delimiter, k + 1, Append(current, char), FALSE, result)

parseLine(line, delimiter) == ParseLoop(line, delimiter, 1, <<>>, FALSE, <<>>)

\* (n).toString() for n >= 0
RECURSIVE NumberToString(_)
NumberToString(n) ==
  IF n < 10 THEN <<DigitToString(n)>>
  ELSE NumberToString(n \div 10) \o <<DigitToString(n % 10)>>

\* Column names counted from 1.
MutantColumnName(index) ==
  <<"c", "o", "l", "u", "m", "n", "_">> \o NumberToString(index + 1)

\* `column_${index}`, index counted from 0
ColumnName(index) == <<"c", "o", "l", "u", "m", "n", "_">> \o NumberToString(index)

\* headers.forEach((header, index) => row[header] = values[index] || ''),
\* from the c-th header on
RECURSIVE FillRow(_, _, _, _)
FillRow(headers, values, c, row) ==
  IF c > Len(headers) THEN row
  ELSE FillRow(headers, values, c + 1,
               Put(row, headers[c], IF c <= Len(values) THEN values[c] ELSE <<>>))

\* A filter that drops only the lines of length 0.
MutantFilterEmpty(lines) == SelectSeq(lines, LAMBDA line : Len(line) > 0)

\* lines.filter((line) => line.trim().length > 0)
FilterEmpty(lines) == SelectSeq(lines, LAMBDA line : Len(Trim(line)) > 0)

parseCSV(text, opts) ==
  LET lines == SplitLines(text)
      filteredLines == IF opts.skipEmptyLines THEN FilterEmpty(lines) ELSE lines
  IN  IF Len(filteredLines) = 0 THEN <<>>
      ELSE LET firstLine == parseLine(filteredLines[1], opts.delimiter)
               headers == IF opts.hasHeaders THEN firstLine
                          ELSE [c \in 1..Len(firstLine) |-> ColumnName(c - 1)]
               dataStart == IF opts.hasHeaders THEN 2 ELSE 1
           IN  [r \in 1..(Len(filteredLines) - dataStart + 1) |->
                  FillRow(headers,
                          parseLine(filteredLines[r + dataStart - 1], opts.delimiter),
                          1, <<>>)]

(***************************************************************************)
(* The tables and options a caller may hand to the codec.                  *)
(***************************************************************************)
CellValues ==
  {<<>>,                        \* empty
   <<"x">>,                     \* plain
   <<"u", ",", ";", "v">>,      \* holds the delimiter
   <<"q", "\"", "r">>,          \* holds a double quote
   <<"l", "\n", "m">>,          \* holds a line feed
   <<" ", "y">>}                \* starts with a blank

\* The name of the c-th column: plain names, names that need quoting, or
\* an empty name for the first column.
ColumnKey(family, c) ==
  CASE family = "plain" -> <<"h">> \o NumberToString(c)
    [] family = "quoted" -> <<"n", ",", ";", "\"">> \o NumberToString(c)
    [] family = "empty" -> IF c = 1 THEN <<>> ELSE <<"h">> \o NumberToString(c)

Shapes == {sh \in (0..MaxCells) \X (1..MaxCells) : sh[1] * sh[2] <= MaxCells}

Tables ==
  UNION {{[r \in 1..sh[1] |-> [c \in 1..sh[2] |->
             [k |-> ColumnKey(family, c), v |-> cells[r][c]]]] :
            cells \in [1..sh[1] -> [1..sh[2] -> CellValues]],
            family \in {"plain", "quoted", "empty"}} :
         sh \in Shapes}

CsvOptionSets ==
  [delimiter : {<<",">>, <<";">>}, hasHeaders : BOOLEAN, skipEmptyLines : BOOLEAN]

\* no card call is running
CardOff ==
  /\ options = NoOptions
  /\ number = <<>>
  /\ remainingLength = 0
  /\ i = 0
  /\ rnd = NoRandom
  /\ card = <<>>
  /\ res = NoResult

CardIdle ==
  /\ UtilIdle
  /\ CardOff

\* only the named helper is in use
Only(name) ==
  /\ UtilIdleBut(name)
  /\ CardOff
  /\ data = <<>>
  /\ csvOptions = NoResult
  /\ content = <<>>
  /\ parsed = <<>>
  /\ FileIdle


\* writeCSV's use of the codec: the table becomes text
Stringify ==
  /\ pc = "table"
  /\ content' = stringifyCSV(data, csvOptions)
  /\ pc' = "text"
  /\ UNCHANGED <<data, csvOptions, parsed>>
  /\ UNCHANGED cardVars
  /\ UNCHANGED fileVars
  /\ UNCHANGED utilVars

\* readCSV's use of the codec: the text becomes rows
Parse ==
  /\ pc = "text"
  /\ parsed' = parseCSV(content, csvOptions)
  /\ pc' = "rows"
  /\ UNCHANGED <<data, csvOptions, content>>
  /\ UNCHANGED cardVars
  /\ UNCHANGED fileVars
  /\ UNCHANGED utilVars

InitCsv ==
  /\ pc = "table"
  /\ data \in Tables
  /\ csvOptions \in CsvOptionSets
  /\ content = <<>>
  /\ parsed = <<>>
  /\ FileIdle
  /\ CardIdle

NextCsv == Stringify \/ Parse

SpecCsv == InitCsv /\ [][NextCsv]_vars

(***************************************************************************)
(* Properties of the CSV codec.                                            *)
(***************************************************************************)
\* The caller has written a table and read the text back.
RoundTripped == pc = "rows"

DefaultCsvOptions == [delimiter |-> <<",">>, hasHeaders |-> TRUE, skipEmptyLines |-> TRUE]

\* The columns of the table have names that need no quoting.
PlainColumns(table) ==
  \A r \in 1..Len(table) : \A c \in 1..Len(table[r]) :
    table[r][c].k = ColumnKey("plain", c)

\* C9: with the default options, for any table whose values may hold
\* commas, double quotes and newlines, parseCSV(stringifyCSV(table)) is the
\* table: as many rows, the same columns in order, the same cell values.
C9_RoundTrip ==
  (RoundTripped /\ csvOptions = DefaultCsvOptions /\ PlainColumns(data))
    => parsed = data

\* s has no CR or LF and no leading or trailing whitespace
Tidy(s) == Trim(s) = s /\ ~Includes(s, <<"\n">>) /\ ~Includes(s, <<"\r">>)

\* C10: for a non-empty table whose column names and cell values are free
\* of CR and LF and of leading and trailing whitespace, under the same
\* delimiter and hasHeaders = true, parseCSV(stringifyCSV(t, o), o) returns
\* the rows of t.
C10_RoundTripTidy ==
  (RoundTripped /\ csvOptions.hasHeaders /\ data # <<>>
     /\ \A r \in 1..Len(data) : \A c \in 1..Len(data[r]) :
          Tidy(data[r][c].k) /\ Tidy(data[r][c].v))
    => parsed = data

(***************************************************************************)
(* parseLine, character by character.  `scan` holds its arguments and      *)
(* locals; `seps` and `opened` are history: how many delimiters were read  *)
(* while unquoted, and where the last quoted section was opened.           *)
(***************************************************************************)
\* lines 255-258: the arguments and the initial locals; `rest` are the
\* lines the caller will hand to parseLine afterwards
ScanStart(line, delimiter, rest) ==
  [line |-> line, delimiter |-> delimiter, i |-> 0, current |-> <<>>,
   inQuotes |-> FALSE, result |-> <<>>, rest |-> rest,
   seps |-> 0, opened |-> [at |-> 0, current |-> <<>>, fields |-> 0]]

\* An iteration that tests for the delimiter before it looks at inQuotes.
MutantScanStep(sc) ==
  LET char == sc.line[sc.i + 1]
  IN  IF <<char>> = sc.delimiter
      THEN [sc EXCEPT !.result = Append(sc.result, Trim(sc.current)),
                      !.current = <<>>, !.i = sc.i + 1,
                      !.seps = IF sc.inQuotes THEN sc.seps ELSE sc.seps + 1]
      ELSE IF char = "\""
      THEN [sc EXCEPT !.inQuotes = ~sc.inQuotes, !.i = sc.i + 1,
                      !.opened = IF sc.inQuotes THEN sc.opened
                                 ELSE [at |-> sc.i, current |-> sc.current,
                                       fields |-> Len(sc.result)]]
      ELSE [sc EXCEPT !.current = Append(sc.current, char), !.i = sc.i + 1]

\* lines 260-287: one iteration of the loop (with the loop's own i++)
ScanStep(sc) ==
  LET char == sc.line[sc.i + 1]
      nextIsQuote == sc.i + 2 <= Len(sc.line) /\ sc.line[sc.i + 2] = "\""
  IN  IF sc.inQuotes
      THEN IF char = "\""
           THEN IF nextIsQuote
                THEN [sc EXCEPT !.current = Append(sc.current, "\""), !.i = sc.i + 2]
                ELSE [sc EXCEPT !.inQuotes = FALSE, !.i = sc.i + 1]
           ELSE [sc EXCEPT !.current = Append(sc.current, char), !.i = sc.i + 1]
      ELSE IF char = "\""
           THEN [sc EXCEPT !.inQuotes = TRUE, !.i = sc.i + 1,
                           !.opened = [at |-> sc.i, current |-> sc.current,
                                       fields |-> Len(sc.result)]]
           ELSE IF <<char>> = sc.delimiter
           THEN [sc EXCEPT !.result = Append(sc.result, Trim(sc.current)),
                           !.current = <<>>, !.i = sc.i + 1, !.seps = sc.seps + 1]
           ELSE [sc EXCEPT !.current = Append(sc.current, char), !.i = sc.i + 1]

\* A return that pushes the last field as it stands.
MutantScanReturn(sc) == [sc EXCEPT !.result = Append(sc.result, sc.current)]

\* lines 289-290: the last field is pushed, trimmed
ScanReturn(sc) == [sc EXCEPT !.result = Append(sc.result, Trim(sc.current))]

LineStep ==
  /\ pc = "scan"
  /\ scan.i < Len(scan.line)
  /\ scan' = ScanStep(scan)
  /\ UNCHANGED <<pc, file, validation>>
  /\ UNCHANGED utilVars
  /\ UNCHANGED cardVars
  /\ UNCHANGED csvVars

LineReturn ==
  /\ pc = "scan"
  /\ scan.i >= Len(scan.line)
  /\ scan' = ScanReturn(scan)
  /\ pc' = "scanned"
  /\ UNCHANGED <<file, validation>>
  /\ UNCHANGED utilVars
  /\ UNCHANGED cardVars
  /\ UNCHANGED csvVars

\* The locals a call of parseLine starts with, after an earlier call.
CallAfter(sc) == ScanStart(Head(sc.rest), sc.delimiter, Tail(sc.rest))

\* parseCSV line 78: the caller hands the next line to parseLine
LineCall ==
  /\ pc = "scanned"
  /\ scan.rest # <<>>
  /\ scan' = CallAfter(scan)
  /\ pc' = "scan"
  /\ UNCHANGED <<file, validation>>
  /\ UNCHANGED utilVars
  /\ UNCHANGED cardVars
  /\ UNCHANGED csvVars

LineAlphabet == {"a", ",", ";", "\"", " "}

Lines == UNION {[1..n -> LineAlphabet] : n \in 0..MaxLineLen}

\* what may follow the line: nothing, or one more line
FollowingLines == {<<>>, << <<"a", ",", "\"", "b">> >>}

InitLine ==
  /\ pc = "scan"
  /\ \E line \in Lines, delimiter \in {<<",">>, <<";">>}, rest \in FollowingLines :
       scan = ScanStart(line, delimiter, rest)
  /\ file = NoResult
  /\ validation = NoResult
  /\ data = <<>>
  /\ csvOptions = NoResult
  /\ content = <<>>
  /\ parsed = <<>>
  /\ CardIdle

NextLine == LineStep \/ LineReturn \/ LineCall

SpecLine == InitLine /\ [][NextLine]_vars

\* the character the next iteration reads, and whether a quote follows it
ScanChar == scan.line[scan.i + 1]

ScanNextIsQuote == scan.i + 2 <= Len(scan.line) /\ scan.line[scan.i + 2] = "\""

\* one iteration of the loop has run
Iterated == pc = "scan" /\ pc' = "scan" /\ scan'.i # scan.i

\* what an iteration does, by the state it starts in and the character it reads
C11_Iteration ==
  Iterated =>
    /\ (Len(scan'.result) # Len(scan.result)
          => ~scan.inQuotes /\ <<ScanChar>> = scan.delimiter)
    /\ (~scan.inQuotes /\ <<ScanChar>> = scan.delimiter
          => /\ scan'.result = Append(scan.result, Trim(scan.current))
             /\ scan'.current = <<>>
             /\ ~scan'.inQuotes
             /\ scan'.i = scan.i + 1)
    /\ (scan.inQuotes /\ <<ScanChar>> = scan.delimiter
          => /\ scan'.current = Append(scan.current, ScanChar)
             /\ scan'.result = scan.result
             /\ scan'.inQuotes
             /\ scan'.i = scan.i + 1)
    /\ (scan.inQuotes /\ ScanChar = "\"" /\ ScanNextIsQuote
          => /\ scan'.current = Append(scan.current, "\"")
             /\ scan'.result = scan.result
             /\ scan'.inQuotes
             /\ scan'.i = scan.i + 2)
    /\ (ScanChar = "\"" /\ ~(scan.inQuotes /\ ScanNextIsQuote)
          => /\ scan'.inQuotes = ~scan.inQuotes
             /\ scan'.current = scan.current
             /\ scan'.result = scan.result
             /\ scan'.i = scan.i + 1)

\* a call starts unquoted; a returned call has one field more than the
\* delimiters it read while unquoted
C11_Fields ==
  /\ (pc = "scan" /\ scan.i = 0 => ~scan.inQuotes)
  /\ (pc = "scanned" => Len(scan.result) = 1 + scan.seps)

\* C11: parseLine starts unquoted; a delimiter ends a field only when it is
\* read unquoted, so a returned line has 1 + (delimiters read while unquoted)
\* fields; a delimiter read while quoted is kept as content; inside quotes a
\* doubled quote adds one literal quote and stays quoted; any other quote
\* toggles the state and adds nothing.
C11_QuoteStateMachine == [][C11_Iteration]_vars /\ []C11_Fields

\* `",",a` has been split into the two fields `,` and `a`
C11_Witness ==
  /\ pc = "scanned"
  /\ scan.line = <<"\"", ",", "\"", ",", "a">>
  /\ scan.delimiter = <<",">>
  /\ scan.result = << <<",">>, <<"a">> >>

\* a run of characters read inside quotes, as the content it adds
RECURSIVE QuotedContent(_)
QuotedContent(s) ==
  IF s = <<>> THEN <<>>
  ELSE IF Len(s) >= 2 /\ s[1] = "\"" /\ s[2] = "\""
  THEN <<"\"">> \o QuotedContent(SubSeq(s, 3, Len(s)))
  ELSE <<s[1]>> \o QuotedContent(Tail(s))

IsSuffix(t, s) ==
  Len(t) <= Len(s) /\ SubSeq(s, Len(s) - Len(t) + 1, Len(s)) = t

\* parseLine has returned from a line whose last quote was never closed
Unterminated == pc = "scanned" /\ scan.inQuotes

\* the characters of the line after that quote
Following == SubSeq(scan.line, scan.opened.at + 2, Len(scan.line))

LastField == scan.result[Len(scan.result)]

\* C12 as stated: after a quote that is never closed, every following
\* character of the line, delimiters included, is content of the field the
\* quote was opened in, and the line yields no further field.
C12_UnclosedQuoteKeepsAll ==
  Unterminated =>
    /\ IsSuffix(QuotedContent(Following), LastField)
    /\ Len(scan.result) = scan.opened.fields + 1

C12_FieldOfUnclosedQuote ==
  Unterminated =>
    /\ LastField = Trim(scan.opened.current \o QuotedContent(Following))
    /\ Len(scan.result) = scan.opened.fields + 1

C12_NextLineFresh ==
  pc = "scanned" /\ pc' = "scan" =>
    scan' = ScanStart(Head(scan.rest), scan.delimiter, Tail(scan.rest))

\* C12 amended: after a quote that is never closed, the field the quote was
\* opened in is what it held before the quote followed by every following
\* character (a doubled quote as one quote, delimiters included), trimmed of
\* leading and trailing whitespace as every field is; the line yields no
\* further field, and the next line is parsed from a fresh unquoted state.
C12_UnclosedQuote == []C12_FieldOfUnclosedQuote /\ [][C12_NextLineFresh]_vars

\* `,"a, ` has returned an empty field and the field `a,`: the delimiter
\* after the quote is content, the blank at the end is not
C12_Witness ==
  /\ Unterminated
  /\ scan.line = <<",", "\"", "a", ",", " ">>
  /\ scan.delimiter = <<",">>
  /\ scan.result = << <<>>, <<"a", ",">> >>

(***************************************************************************)
(* Reading a file.  `file` is the file a path names: whether it can be     *)
(* read, its lines and its line ending; its text is the lines joined by    *)
(* the line ending (a last empty line is a trailing line ending).          *)
(***************************************************************************)
FileLines ==
  {<<>>,                                  \* empty
   <<" ">>,                               \* blank
   <<"a", ",", "b">>,                     \* two names
   <<"a", ",", "a">>,                     \* the same name twice
   <<"b", ",", "1">>,                     \* a name that is an integer
   <<"x">>,                               \* one field
   <<"x", ",", "y", ",", "z">>,           \* three fields
   <<"x", ";", "y">>,                     \* two fields for ';'
   <<"\"", "p", ",", "q", "\"", ",", "r">>} \* a quoted delimiter

LineEndings == {<<"\n">>, <<"\r", "\n">>}

RECURSIVE SeqsUpTo(_, _)
SeqsUpTo(S, n) ==
  IF n = 0 THEN {<<>>}
  ELSE LET shorter == SeqsUpTo(S, n - 1)
       IN  shorter \cup {Append(q, e) : q \in shorter, e \in S}

MissingFile == [exists |-> FALSE, lines |-> <<>>, eol |-> <<"\n">>]

Files ==
  {MissingFile} \cup
  {[exists |-> TRUE, lines |-> ls, eol |-> eol] :
     ls \in SeqsUpTo(FileLines, MaxLines), eol \in LineEndings}

FileText(f) == Join(f.lines, f.eol)

\* lines 19-28: readFile rejects when the file cannot be read
readCSV(f, opts) ==
  IF ~f.exists THEN [threw |-> TRUE, rows |-> <<>>]
  ELSE [threw |-> FALSE, rows |-> parseCSV(FileText(f), opts)]

ReadCSV ==
  /\ pc = "file"
  /\ content' = IF file.exists THEN FileText(file) ELSE content
  /\ parsed' = readCSV(file, csvOptions).rows
  /\ pc' = IF readCSV(file, csvOptions).threw THEN "threw" ELSE "rows"
  /\ UNCHANGED <<data, csvOptions>>
  /\ UNCHANGED cardVars
  /\ UNCHANGED fileVars
  /\ UNCHANGED utilVars

\* A count that subtracts the header row without a floor.
MutantCountCSVRows(f, opts) ==
  IF ~f.exists THEN [threw |-> TRUE, value |-> 0]
  ELSE LET lines == IF opts.skipEmptyLines THEN FilterEmpty(SplitLines(FileText(f)))
                    ELSE SplitLines(FileText(f))
       IN  [threw |-> FALSE,
            value |-> IF opts.hasHeaders THEN Len(lines) - 1 ELSE Len(lines)]

\* lines 234-246
countCSVRows(f, opts) ==
  IF ~f.exists THEN [threw |-> TRUE, value |-> 0]
  ELSE LET lines == IF opts.skipEmptyLines THEN FilterEmpty(SplitLines(FileText(f)))
                    ELSE SplitLines(FileText(f))
       IN  [threw |-> FALSE,
            value |-> IF opts.hasHeaders THEN Max(0, Len(lines) - 1) ELSE Len(lines)]

\* lines 218-229
getCSVHeaders(f, opts) ==
  IF ~f.exists THEN [threw |-> TRUE, value |-> <<>>]
  ELSE [threw |-> FALSE, value |-> parseLine(SplitLines(FileText(f))[1], opts.delimiter)]

CountCSVRows ==
  /\ pc = "file"
  /\ res' = [op |-> "countCSVRows", arg |-> Undefined,
             threw |-> countCSVRows(file, csvOptions).threw,
             value |-> countCSVRows(file, csvOptions).value]
  /\ pc' = "counted"
  /\ UNCHANGED <<options, number, remainingLength, i, rnd, card>>
  /\ UNCHANGED csvVars
  /\ UNCHANGED fileVars
  /\ UNCHANGED utilVars

GetCSVHeaders ==
  /\ pc = "file"
  /\ res' = [op |-> "getCSVHeaders", arg |-> Undefined,
             threw |-> getCSVHeaders(file, csvOptions).threw,
             value |-> getCSVHeaders(file, csvOptions).value]
  /\ pc' = "headers"
  /\ UNCHANGED <<options, number, remainingLength, i, rnd, card>>
  /\ UNCHANGED csvVars
  /\ UNCHANGED fileVars
  /\ UNCHANGED utilVars

InitRead ==
  /\ pc = "file"
  /\ file \in Files
  /\ csvOptions \in CsvOptionSets
  /\ validation = NoResult
  /\ scan = NoResult
  /\ data = <<>>
  /\ content = <<>>
  /\ parsed = <<>>
  /\ CardIdle

NextRead == ReadCSV \/ CountCSVRows \/ GetCSVHeaders

SpecRead == InitRead /\ [][NextRead]_vars

(***************************************************************************)
(* Properties of reading.                                                  *)
(***************************************************************************)
\* The lines of the file as written, and those that are not blank.
SourceLines == IF file.lines = <<>> THEN << <<>> >> ELSE file.lines

NotBlank(line) == \E c \in 1..Len(line) : ~IsSpace(line[c])

KeptLines ==
  IF csvOptions.skipEmptyLines THEN SelectSeq(SourceLines, NotBlank) ELSE SourceLines

\* the fields of the n-th kept line
FieldsOf(n) == parseLine(KeptLines[n], csvOptions.delimiter)

\* readCSV has returned rows for a file that has a first kept line
HasRead == pc = "rows" /\ KeptLines # <<>>

\* the kept line the r-th row was parsed from
LineOfRow(r) == IF csvOptions.hasHeaders THEN r + 1 ELSE r

\* C13: with hasHeaders=true every row has exactly the header's column
\* names as keys, in header order, with the line's fields as values by
\* position and "" for the columns a short line does not reach.
C13_RowsFollowHeader ==
  HasRead /\ csvOptions.hasHeaders =>
    LET headers == FieldsOf(1)
    IN  /\ Len(parsed) = Len(KeptLines) - 1
        /\ \A r \in 1..Len(parsed) :
             /\ Keys(parsed[r]) = headers
             /\ \A c \in 1..Len(headers) :
                  parsed[r][c].v = IF c <= Len(FieldsOf(r + 1))
                                   THEN FieldsOf(r + 1)[c] ELSE <<>>

\* C14: every field parsed from a data line is a cell of its row, however
\* many fields the line has.
C14_NoFieldLost ==
  HasRead =>
    \A r \in 1..Len(parsed) :
      LET values == FieldsOf(LineOfRow(r))
      IN  /\ Len(parsed[r]) >= Len(values)
          /\ \A c \in 1..Len(values) :
               \E k \in 1..Len(parsed[r]) : parsed[r][k].v = values[c]

\* column_0 .. column_(k-1)
GeneratedNames(k) ==
  [c \in 1..k |-> <<"c", "o", "l", "u", "m", "n", "_", DigitToString(c - 1)>>]

\* C15: with hasHeaders=false the columns are column_0 .. column_(k-1), k
\* the number of fields of the first remaining line; that line is the first
\* data row, and there are as many rows as remaining lines.
C15_GeneratedColumns ==
  HasRead /\ ~csvOptions.hasHeaders =>
    LET k == Len(FieldsOf(1))
    IN  /\ Len(parsed) = Len(KeptLines)
        /\ \A r \in 1..Len(parsed) : Keys(parsed[r]) = GeneratedNames(k)
        /\ \A c \in 1..k : parsed[1][c].v = FieldsOf(1)[c]

\* `"p,q",r` and `x` have been read without headers
C15_Witness ==
  /\ pc = "rows"
  /\ ~csvOptions.hasHeaders
  /\ Len(parsed) = 2
  /\ Keys(parsed[2]) = GeneratedNames(2)
  /\ parsed[1][1].v = <<"p", ",", "q">>
  /\ parsed[2][1].v = <<"x">>
  /\ parsed[2][2].v = <<>>

\* C16: with skipEmptyLines=true a line that is empty after trimming gives
\* no row and is no header, wherever it stands and whatever the line
\* ending: the rows are those of the file without such lines, and a file of
\* only such lines, or an empty one, gives no row.
C16_BlankLinesSkipped ==
  pc = "rows" /\ csvOptions.skipEmptyLines =>
    LET kept == SelectSeq(file.lines, NotBlank)
    IN  /\ parsed = parseCSV(Join(kept, <<"\n">>), csvOptions)
        /\ kept = <<>> => parsed = <<>>
        /\ kept # <<>> =>
             Len(parsed) = IF csvOptions.hasHeaders THEN Len(kept) - 1 ELSE Len(kept)

\* a blank line between the header and the only data line, CRLF endings
C16_Witness ==
  /\ pc = "rows"
  /\ csvOptions.skipEmptyLines
  /\ csvOptions.hasHeaders
  /\ file.eol = <<"\r", "\n">>
  /\ file.lines = << <<"a", ",", "b">>, <<" ">>, <<"x">> >>
  /\ Len(parsed) = 1
  /\ Keys(parsed[1]) = << <<"a">>, <<"b">> >>

(***************************************************************************)
(* Writing.  The tables a caller may hand to stringifyCSV need not be      *)
(* rectangular: a row has any of the keys, in any order, and a value is a  *)
(* string, null or undefined.                                              *)
(***************************************************************************)
WriteKeys == {<<"h", "1">>, <<"n", ",", ";">>}

WriteValues == {<<"x">>, <<"u", ",", ";">>, NullValue, UndefinedValue}

WriteCells == [k : WriteKeys, v : WriteValues]

IsObject(row) == \A a, b \in 1..Len(row) : a # b => row[a].k # row[b].k

\* the objects over these keys, by their own key order
WriteRows ==
  {row \in UNION {[1..n -> WriteCells] : n \in 0..Cardinality(WriteKeys)} : IsObject(row)}

RECURSIVE CellCount(_)
CellCount(table) ==
  IF table = <<>> THEN 0 ELSE Len(Head(table)) + CellCount(Tail(table))

\* the tables of at most m rows and at most MaxCells cells in all
RECURSIVE WriteTables(_)
WriteTables(m) ==
  IF m = 0 THEN {<<>>}
  ELSE LET fewer == WriteTables(m - 1)
       IN  fewer \cup
           UNION {{Append(table, row) :
                     row \in {r \in WriteRows : Len(r) <= MaxCells - CellCount(table)}} :
                  table \in {t \in fewer : Len(t) = m - 1}}

InitWrite ==
  /\ pc = "table"
  /\ data \in WriteTables(MaxCells)
  /\ csvOptions \in {o \in CsvOptionSets : o.skipEmptyLines}
  /\ content = <<>>
  /\ parsed = <<>>
  /\ FileIdle
  /\ CardIdle

NextWrite == Stringify

SpecWrite == InitWrite /\ [][NextWrite]_vars

\* the field a row contributes for a column
FieldFor(row, key) ==
  IF HasKey(row, key) /\ Get(row, key) \notin {NullValue, UndefinedValue}
  THEN escapeField(Get(row, key), csvOptions.delimiter)
  ELSE <<>>

FieldAlphabet == {"x", ",", ";", "\"", "\n", "\r"}

FieldValues == UNION {[1..n -> FieldAlphabet] : n \in 0..MaxFieldLen}

EscapeField ==
  /\ pc = "field"
  /\ res' = Returned("escapeField", Undefined, escapeField(content, csvOptions.delimiter))
  /\ pc' = "escaped"
  /\ UNCHANGED <<options, number, remainingLength, i, rnd, card>>
  /\ UNCHANGED csvVars
  /\ UNCHANGED fileVars
  /\ UNCHANGED utilVars

InitField ==
  /\ pc = "field"
  /\ content \in FieldValues
  /\ csvOptions \in CsvOptionSets
  /\ data = <<>>
  /\ parsed = <<>>
  /\ FileIdle
  /\ CardIdle

NextField == EscapeField

SpecField == InitField /\ [][NextField]_vars

\* how many double quotes a string holds
QuoteCount(s) == Cardinality({c \in 1..Len(s) : s[c] = "\""})

\* C18: a field is wrapped in double quotes exactly when it holds the
\* delimiter, a double quote, LF or CR; between the wrapping quotes every
\* quote is doubled and nothing else differs; any other field is unchanged.
C18_Quoting ==
  pc = "escaped" =>
    LET value == content
        out == res.value
        special == \E c \in 1..Len(value) :
                     value[c] \in {csvOptions.delimiter[1], "\"", "\n", "\r"}
    IN  IF special
        THEN /\ Len(out) = Len(value) + QuoteCount(value) + 2
             /\ out[1] = "\""
             /\ out[Len(out)] = "\""
             /\ QuotedContent(SubSeq(out, 2, Len(out) - 1)) = value
        ELSE out = value

\* `x"` followed by CR has become `"x""` CR `"`
C18_Witness ==
  /\ pc = "escaped"
  /\ content = <<"x", "\"", "\r">>
  /\ res.value = <<"\"", "x", "\"", "\"", "\r", "\"">>

(***************************************************************************)
(* validateCSV.  An option that may be left out is <<>> when left out and  *)
(* <<value>> when given.  An error string is kept as the message it is     *)
(* and the values put into it.                                             *)
(***************************************************************************)
Given(option) == option # <<>>

\* `Missing columns: ${names.join(', ')}`
MissingColumnsError(names) ==
  [kind |-> "Missing columns", names |-> names, expected |-> 0, got |-> 0, row |-> 0]

\* `Expected ${expected} rows, got ${got}`, `Expected at least ...`,
\* `Expected at most ...`
RowCountError(kind, expected, got) ==
  [kind |-> kind, names |-> <<>>, expected |-> expected, got |-> got, row |-> 0]

\* `Row ${row}: Missing required field '${field}'`
RequiredFieldError(row, field) ==
  [kind |-> "Missing required field", names |-> <<field>>, expected |-> 0, got |-> 0,
   row |-> row]

\* `Failed to read CSV: ${errorMessage}`
ReadError ==
  [kind |-> "Failed to read CSV", names |-> <<>>, expected |-> 0, got |-> 0, row |-> 0]

\* A list that takes an error only while it is empty.
MutantPush(errors, error) == IF errors = <<>> THEN <<error>> ELSE errors

\* errors.push(error)
Push(errors, error) == Append(errors, error)

\* lines 166-171
CheckColumns(errors, columns, opts) ==
  IF Given(opts.expectedColumns)
  THEN LET missingColumns ==
             SelectSeq(opts.expectedColumns[1],
                       LAMBDA col : ~(\E c \in 1..Len(columns) : columns[c] = col))
       IN  IF Len(missingColumns) > 0
           THEN Push(errors, MissingColumnsError(missingColumns))
           ELSE errors
  ELSE errors

\* lines 174-184
CheckRowCounts(errors, n, opts) ==
  LET e1 == IF Given(opts.expectedRowCount) /\ n # opts.expectedRowCount[1]
            THEN Push(errors, RowCountError("Expected rows", opts.expectedRowCount[1], n))
            ELSE errors
      e2 == IF Given(opts.minRowCount) /\ n < opts.minRowCount[1]
            THEN Push(e1, RowCountError("Expected at least", opts.minRowCount[1], n))
            ELSE e1
  IN  IF Given(opts.maxRowCount) /\ n > opts.maxRowCount[1]
      THEN Push(e2, RowCountError("Expected at most", opts.maxRowCount[1], n))
      ELSE e2

\* !row[field] || row[field].trim() === ''
IsMissing(row, field) ==
  \/ Get(row, field) = UndefinedValue
  \/ Get(row, field) = <<>>
  \/ Trim(Get(row, field)) = <<>>

\* lines 188-195: the two loops, at row r and at the f-th required field
RECURSIVE CheckRequired(_, _, _, _, _)
CheckRequired(errors, rows, fields, r, f) ==
  IF r > Len(rows) THEN errors
  ELSE IF f > Len(fields) THEN CheckRequired(errors, rows, fields, r + 1, 1)
  ELSE CheckRequired(IF IsMissing(rows[r], fields[f])
                     THEN Push(errors, RequiredFieldError(r, fields[f]))
                     ELSE errors,
                     rows, fields, r, f + 1)

\* A read failure taken for an empty table.
MutantReadFailed ==
  [isValid |-> TRUE, errors |-> <<>>, rowCount |-> 0, columns |-> <<>>]

\* lines 204-212: the catch block
ReadFailed ==
  [isValid |-> FALSE, errors |-> <<ReadError>>, rowCount |-> 0, columns |-> <<>>]

validateCSV(f, csvOpts, opts) ==
  LET read == readCSV(f, csvOpts)
  IN  IF read.threw THEN ReadFailed
      ELSE LET rows == read.rows
               columns == IF Len(rows) > 0 THEN Keys(rows[1]) ELSE <<>>
               e1 == CheckColumns(<<>>, columns, opts)
               e2 == CheckRowCounts(e1, Len(rows), opts)
               errors == IF Given(opts.requiredFields)
                         THEN CheckRequired(e2, rows, opts.requiredFields[1], 1, 1)
                         ELSE e2
           IN  [isValid |-> Len(errors) = 0, errors |-> errors,
                rowCount |-> Len(rows), columns |-> columns]

\* `parsed` keeps the rows the call has read
ValidateCSV ==
  /\ pc = "file"
  /\ parsed' = readCSV(file, csvOptions).rows
  /\ res' = Returned("validateCSV", Undefined, validateCSV(file, csvOptions, validation))
  /\ pc' = "validated"
  /\ UNCHANGED <<data, csvOptions, content>>
  /\ UNCHANGED <<options, number, remainingLength, i, rnd, card>>
  /\ UNCHANGED fileVars
  /\ UNCHANGED utilVars

ValidatedLines ==
  {<<>>,                  \* empty
   <<"a", ",", "b">>,     \* two names
   <<"x", ",", "y">>,     \* two fields
   <<"x">>}               \* one field

ValidatedFiles ==
  {MissingFile} \cup
  {[exists |-> TRUE, lines |-> ls, eol |-> <<"\n">>] :
     ls \in SeqsUpTo(ValidatedLines, MaxLines)}

ValidationOptionSets ==
  [expectedColumns : {<<>>, << << <<"a">>, <<"c">> >> >>, << << <<"d">>, <<"b">>, <<"c">> >> >>},
   expectedRowCount : {<<>>, <<0>>, <<1>>, <<2>>},
   minRowCount : {<<>>, <<2>>},
   maxRowCount : {<<>>, <<0>>},
   requiredFields : {<<>>, << << <<"b">>, <<"a">> >> >>, << << <<"c">> >> >>}]

InitValidate ==
  /\ pc = "file"
  /\ file \in ValidatedFiles
  /\ csvOptions \in {o \in CsvOptionSets : o.delimiter = <<",">>}
  /\ validation \in ValidationOptionSets
  /\ scan = NoResult
  /\ data = <<>>
  /\ content = <<>>
  /\ parsed = <<>>
  /\ CardIdle

NextValidate == ValidateCSV

SpecValidate == InitValidate /\ [][NextValidate]_vars

(***************************************************************************)
(* Properties of validateCSV.                                              *)
(***************************************************************************)
\* validateCSV has returned for a file that could be read
Validated == pc = "validated" /\ file.exists

Reported(error) == \E p \in 1..Len(res.value.errors) : res.value.errors[p] = error

ColumnsRead == IF parsed = <<>> THEN <<>> ELSE Keys(parsed[1])

MissingOf(expected) ==
  SelectSeq(expected, LAMBDA col : \A c \in 1..Len(ColumnsRead) : ColumnsRead[c] # col)

\* the r-th row read has no text for the field
Lacks(r, field) ==
  \/ ~HasKey(parsed[r], field)
  \/ \A c \in 1..Len(Get(parsed[r], field)) : IsSpace(Get(parsed[r], field)[c])

\* the checks that are configured and fail, as the errors they call for
Failures ==
  (IF Given(validation.expectedColumns) /\ MissingOf(validation.expectedColumns[1]) # <<>>
   THEN {MissingColumnsError(MissingOf(validation.expectedColumns[1]))} ELSE {})
  \cup
  (IF Given(validation.expectedRowCount) /\ Len(parsed) # validation.expectedRowCount[1]
   THEN {RowCountError("Expected rows", validation.expectedRowCount[1], Len(parsed))}
   ELSE {})
  \cup
  (IF Given(validation.minRowCount) /\ Len(parsed) < validation.minRowCount[1]
   THEN {RowCountError("Expected at least", validation.minRowCount[1], Len(parsed))}
   ELSE {})
  \cup
  (IF Given(validation.maxRowCount) /\ Len(parsed) > validation.maxRowCount[1]
   THEN {RowCountError("Expected at most", validation.maxRowCount[1], Len(parsed))}
   ELSE {})
  \cup
  (IF Given(validation.requiredFields)
   THEN LET fields == {validation.requiredFields[1][f] :
                         f \in 1..Len(validation.requiredFields[1])}
        IN  {RequiredFieldError(at[1], at[2]) :
               at \in {rf \in (1..Len(parsed)) \X fields : Lacks(rf[1], rf[2])}}
   ELSE {})

\* where an error stands in the fixed order
Rank(error) ==
  CASE error.kind = "Missing columns" -> 1
    [] error.kind = "Expected rows" -> 2
    [] error.kind = "Expected at least" -> 3
    [] error.kind = "Expected at most" -> 4
    [] error.kind = "Missing required field" ->
         LET fields == validation.requiredFields[1]
         IN  4 + (error.row - 1) * Len(fields)
               + (CHOOSE f \in 1..Len(fields) : fields[f] = error.names[1])
    [] OTHER -> 0

\* C19: validateCSV evaluates every configured check whatever the earlier
\* ones gave: the errors are exactly those of the failing checks, in the
\* order missing columns, exact, minimum, maximum row count, then required
\* fields row by row and field by field; isValid holds exactly when there
\* is no error, and rowCount is the number of rows parsed.
C19_AllChecksInOrder ==
  Validated =>
    LET errors == res.value.errors
    IN  /\ ~res.threw
        /\ \A error \in Failures : Reported(error)
        /\ \A p \in 1..Len(errors) : errors[p] \in Failures
        /\ \A p, q \in 1..Len(errors) : p < q => Rank(errors[p]) < Rank(errors[q])
        /\ res.value.isValid = (errors = <<>>)
        /\ res.value.rowCount = Len(parsed)

\* a header and one short line, with every check configured and failing:
\* five errors are returned, the last for field b of row 1
C19_Witness ==
  /\ Validated
  /\ file.lines = << <<"a", ",", "b">>, <<"x">> >>
  /\ csvOptions.hasHeaders
  /\ Given(validation.expectedColumns)
  /\ validation.expectedRowCount = <<2>>
  /\ Given(validation.minRowCount)
  /\ Given(validation.maxRowCount)
  /\ validation.requiredFields = << << <<"b">>, <<"a">> >> >>
  /\ Len(res.value.errors) = 5
  /\ res.value.errors[5] = RequiredFieldError(1, <<"b">>)
  /\ ~res.value.isValid
  /\ res.value.rowCount = 1

\* C20: when the file cannot be read validateCSV does not throw: it returns
\* isValid=false, exactly one error, rowCount=0 and no columns.
C20_ReadFailureReported ==
  pc = "validated" /\ ~file.exists =>
    /\ ~res.threw
    /\ res.value.isValid = FALSE
    /\ Len(res.value.errors) = 1
    /\ res.value.rowCount = 0
    /\ res.value.columns = <<>>

\* the file is missing and the one error is the read failure
C20_Witness ==
  /\ pc = "validated"
  /\ ~file.exists
  /\ res.value.errors = <<ReadError>>
  /\ Given(validation.expectedColumns)
  /\ Given(validation.requiredFields)

\* C21: for a file with a header row and any number of data rows, none
\* included, validateCSV reports an expected column as missing exactly when
\* its name is not in the header row: the error names every such column
\* and no other, and rowCount is the number of data rows.
C21_MissingColumnsByHeader ==
  (Validated /\ csvOptions.hasHeaders /\ KeptLines # <<>>
     /\ Given(validation.expectedColumns)) =>
    LET header == FieldsOf(1)
        absent == SelectSeq(validation.expectedColumns[1],
                            LAMBDA col : \A c \in 1..Len(header) : header[c] # col)
        errors == res.value.errors
    IN  /\ \A p \in 1..Len(errors) :
             errors[p].kind = "Missing columns" => errors[p].names = absent
        /\ absent # <<>> => \E p \in 1..Len(errors) : errors[p].kind = "Missing columns"
        /\ absent = <<>> => \A p \in 1..Len(errors) : errors[p].kind # "Missing columns"
        /\ res.value.rowCount = Len(KeptLines) - 1

(***************************************************************************)
(* validatePasswordStrength (src/src/generators/password.ts).              *)
(***************************************************************************)
UppercaseChars ==
  {"A", "B", "C", "D", "E", "F", "G", "H", "I", "J", "K", "L", "M",
   "N", "O", "P", "Q", "R", "S", "T", "U", "V", "W", "X", "Y", "Z"}

LowercaseChars ==
  {"a", "b", "c", "d", "e", "f", "g", "h", "i", "j", "k", "l", "m",
   "n", "o", "p", "q", "r", "s", "t", "u", "v", "w", "x", "y", "z"}

\* the class [!@#$%^&*()_+\-=\[\]{}|;:,.<>?]
SymbolChars ==
  {"!", "@", "#", "$", "%", "^", "&", "*", "(", ")", "_", "+", "-", "=",
   "[", "]", "{", "}", "|", ";", ":", ",", ".", "<", ">", "?"}

\* regex.test(s) for a regex that is one character class
HasCharIn(s, class) == \E k \in 1..Len(s) : s[k] \in class

\* /(.)\1{2,}/.test(s); `.` matches no line terminator
HasTriple(s) ==
  \E k \in 1..(Len(s) - 2) :
    s[k] = s[k + 1] /\ s[k] = s[k + 2] /\ s[k] \notin {"\n", "\r"}

\* /^[a-zA-Z]+$/.test(s)
OnlyLetters(s) ==
  s # <<>> /\ \A k \in 1..Len(s) : s[k] \in UppercaseChars \cup LowercaseChars

levels == <<"weak", "fair", "good", "strong", "very-strong">>

validatePasswordStrength(pw) ==
  LET len == (IF Len(pw) >= 8 THEN 1 ELSE 0) + (IF Len(pw) >= 12 THEN 1 ELSE 0)
               + (IF Len(pw) >= 16 THEN 1 ELSE 0)
      hasUppercase == HasCharIn(pw, UppercaseChars)
      hasLowercase == HasCharIn(pw, LowercaseChars)
      hasNumbers == HasCharIn(pw, {DigitChars[d] : d \in 1..10})
      hasSymbols == HasCharIn(pw, SymbolChars)
      score == len + (IF hasUppercase THEN 1 ELSE 0) + (IF hasLowercase THEN 1 ELSE 0)
                 + (IF hasNumbers THEN 1 ELSE 0) + (IF hasSymbols THEN 1 ELSE 0)
                 - (IF HasTriple(pw) THEN 1 ELSE 0)
      feedback ==
        (IF Len(pw) < 8 THEN <<"Password should be at least 8 characters">> ELSE <<>>)
        \o (IF hasUppercase THEN <<>> ELSE <<"Add uppercase letters">>)
        \o (IF hasLowercase THEN <<>> ELSE <<"Add lowercase letters">>)
        \o (IF hasNumbers THEN <<>> ELSE <<"Add numbers">>)
        \o (IF hasSymbols THEN <<>> ELSE <<"Add special characters">>)
        \o (IF HasTriple(pw) THEN <<"Avoid repeated characters">> ELSE <<>>)
        \o (IF OnlyLetters(pw) THEN <<"Mix in numbers and symbols">> ELSE <<>>)
      normalizedScore == Max(0, Min(4, score \div 2))
  IN  [score |-> normalizedScore, level |-> levels[normalizedScore + 1],
       feedback |-> feedback]

ValidatePasswordStrength ==
  /\ pc = "password"
  /\ password' = [password EXCEPT !.strength = validatePasswordStrength(password.password)]
  /\ pc' = "rated"
  /\ UNCHANGED cardVars
  /\ UNCHANGED csvVars
  /\ UNCHANGED fileVars
  /\ UNCHANGED <<retrying, viewport, html, network, download>>

\* one character of each kind: uppercase, lowercase, digit, symbol, other
PasswordAlphabet == {"M", "y", "0", "@", " "}

\* a pattern repeated up to a length, and the README's example
Passwords ==
  {[k \in 1..n |-> pattern[((k - 1) % Len(pattern)) + 1]] :
     pattern \in UNION {[1..m -> PasswordAlphabet] : m \in 1..MaxPatternLen},
     n \in 0..MaxPasswordLen}
  \cup {<<"M", "y", "P", "@", "s", "s", "w", "0", "r", "d">>}

InitPassword ==
  /\ pc = "password"
  /\ \E pw \in Passwords : password = [password |-> pw, strength |-> NoResult]
  /\ Only("password")

NextPassword == ValidatePasswordStrength

SpecPassword == InitPassword /\ [][NextPassword]_vars

\* C22: validatePasswordStrength returns a score in 0..4 and the level at
\* that index of (weak, fair, good, strong, very-strong), and it rates as
\* strong a password of 8 to 11 characters that has an uppercase letter, a
\* lowercase letter, a digit and a symbol and no character three times in a
\* row, such as MyP@ssw0rd.
C22_StrongPassword ==
  pc = "rated" =>
    LET pw == password.password
        strength == password.strength
    IN  /\ strength.score \in 0..4
        /\ strength.level =
             <<"weak", "fair", "good", "strong", "very-strong">>[strength.score + 1]
        /\ (/\ Len(pw) \in 8..11
            /\ \E k \in 1..Len(pw) : pw[k] \in UppercaseChars
            /\ \E k \in 1..Len(pw) : pw[k] \in LowercaseChars
            /\ \E k \in 1..Len(pw) : IsDigit(pw[k])
            /\ \E k \in 1..Len(pw) : pw[k] \in SymbolChars
            /\ ~\E k \in 1..(Len(pw) - 2) : pw[k] = pw[k + 1] /\ pw[k] = pw[k + 2])
           => strength.level = "strong"

\* C23: for every file and every hasHeaders and skipEmptyLines,
\* countCSVRows returns the length of the array readCSV returns for the
\* same file and options (and fails when readCSV fails).
C23_CountMatchesRead ==
  pc = "counted" =>
    /\ res.threw = readCSV(file, csvOptions).threw
    /\ ~res.threw => res.value = Len(readCSV(file, csvOptions).rows)

\* a file of a blank line, a header and one data line,
\* read with headers and skipEmptyLines: one row
C23_Witness ==
  /\ pc = "counted"
  /\ csvOptions.hasHeaders
  /\ csvOptions.skipEmptyLines
  /\ file.lines = << <<" ">>, <<"a", ",", "b">>, <<"x">> >>
  /\ res.value = 1
  /\ Len(readCSV(file, csvOptions).rows) = 1

\* C24: with hasHeaders=true getCSVHeaders returns the column names, in
\* order, that readCSV uses as the keys of its rows for the same file and
\* options, also for files that begin with blank lines.
C24_HeadersMatchRead ==
  (pc = "headers" /\ csvOptions.hasHeaders /\ file.exists) =>
    /\ ~res.threw
    /\ \A r \in 1..Len(readCSV(file, csvOptions).rows) :
         Keys(readCSV(file, csvOptions).rows[r]) = res.value

(***************************************************************************)
(* The card prefixes and the order of the types.                           *)
(***************************************************************************)
\* the orders in which the four types can be checked
TypeOrders ==
  {order \in [1..Len(CardTypes) -> {CardTypes[t] : t \in 1..Len(CardTypes)}] :
     \A a, b \in 1..Len(CardTypes) : a # b => order[a] # order[b]}

\* no prefix of one type starts, or is, a prefix of another type
PrefixesApart ==
  \A t, u \in 1..Len(CardTypes) :
    t # u =>
      \A j \in 1..Len(CARD_PREFIXES[CardTypes[t]]),
         k \in 1..Len(CARD_PREFIXES[CardTypes[u]]) :
        ~StartsWith(CARD_PREFIXES[CardTypes[u]][k], CARD_PREFIXES[CardTypes[t]][j])

\* C25: no prefix of one card type is a prefix of, or equal to, a prefix of
\* another, so getCardType gives the same result in whatever order the
\* types are checked, and the type of a generated number is the type it was
\* generated for, for both values of valid and every random outcome.
C25_TypesApart ==
  /\ PrefixesApart
  /\ (pc = "returned" /\ res.op = "getCardType") =>
       /\ \A order \in TypeOrders :
            TypeLoop(StripNonDigits(card), order, 1) = res.value
       /\ Generated => res.value = TypeOf(options)

\* a discover number generated with valid=false has been classified
C25_Witness ==
  /\ pc = "returned"
  /\ res.op = "getCardType"
  /\ Generated
  /\ options.type = "discover"
  /\ ~options.valid
  /\ ~isValidCardNumber(card)
  /\ res.value = "discover"

(***************************************************************************)
(* retry (src/unnamed/part_005).  `retrying` holds the options after their *)
(* defaults, the locals `attempt` and `lastError`, what the promise        *)
(* settled with, and `log`: the calls of fn, their settlements, the calls  *)
(* of onError and the sleeps, in the order they happened.  A value thrown  *)
(* or returned is known by its kind and by who made it at which attempt.   *)
(***************************************************************************)
NoValue == [kind |-> "none", by |-> "none", attempt |-> 0, wraps |-> FALSE]

\* what the attempt-th call of fn resolves or rejects with
FnValue(kind, attempt) == [kind |-> kind, by |-> "fn", attempt |-> attempt, wraps |-> FALSE]

\* An error that is passed on as it was thrown.
MutantNormalise(error) == error

\* line 486: error instanceof Error ? error : new Error(String(error))
Normalise(error) ==
  IF error.kind = "Error" THEN error
  ELSE [kind |-> "Error", by |-> "retry", attempt |-> error.attempt, wraps |-> TRUE]

Event(e, attempt, value, ms) == [e |-> e, attempt |-> attempt, value |-> value, ms |-> ms]

\* lines 483-485 and 497: the loop test, then the call of fn or the final throw
RetryLoop ==
  /\ pc = "loop"
  /\ IF retrying.attempt <= retrying.attempts
     THEN /\ retrying' = [retrying EXCEPT
                            !.log = Append(@, Event("call", retrying.attempt, NoValue, 0))]
          /\ pc' = "fn"
     ELSE /\ retrying' = [retrying EXCEPT
                            !.settled = IF retrying.lastError # NoValue
                                        THEN retrying.lastError
                                        ELSE [kind |-> "Error", by |-> "retry",
                                              attempt |-> 0, wraps |-> FALSE]]
          /\ pc' = "rejected"
  /\ UNCHANGED cardVars
  /\ UNCHANGED csvVars
  /\ UNCHANGED fileVars
  /\ UNCHANGED <<password, viewport, html, network, download>>

\* line 485-486: the promise of fn settles; a rejection is caught
FnSettles ==
  /\ pc = "fn"
  /\ \E kind \in {"result", "Error", "string"} :
       LET value == FnValue(kind, retrying.attempt)
       IN  IF kind = "result"
           THEN /\ retrying' = [retrying EXCEPT
                                  !.log = Append(@, Event("resolve", retrying.attempt, value, 0)),
                                  !.settled = value]
                /\ pc' = "resolved"
           ELSE /\ retrying' = [retrying EXCEPT
                                  !.log = Append(@, Event("reject", retrying.attempt, value, 0)),
                                  !.lastError = Normalise(value)]
                /\ pc' = "catch"
  /\ UNCHANGED cardVars
  /\ UNCHANGED csvVars
  /\ UNCHANGED fileVars
  /\ UNCHANGED <<password, viewport, html, network, download>>

\* lines 487-492: onError?.(lastError, attempt), which may throw, then the
\* sleep when another attempt is left
Catch ==
  /\ pc = "catch"
  /\ LET called == IF retrying.hasOnError
                   THEN Append(retrying.log,
                               Event("onError", retrying.attempt, retrying.lastError, 0))
                   ELSE retrying.log
     IN  \/ /\ retrying.hasOnError
            /\ retrying' = [retrying EXCEPT
                              !.log = called,
                              !.settled = [kind |-> "Error", by |-> "onError",
                                           attempt |-> retrying.attempt, wraps |-> FALSE]]
            /\ pc' = "rejected"
         \/ /\ retrying.attempt < retrying.attempts
            /\ retrying' = [retrying EXCEPT
                              !.log = Append(called, Event("sleep", retrying.attempt,
                                                           NoValue, retrying.delay))]
            /\ pc' = "sleep"
         \/ /\ retrying.attempt >= retrying.attempts
            /\ retrying' = [retrying EXCEPT !.log = called, !.attempt = @ + 1]
            /\ pc' = "loop"
  /\ UNCHANGED cardVars
  /\ UNCHANGED csvVars
  /\ UNCHANGED fileVars
  /\ UNCHANGED <<password, viewport, html, network, download>>

\* line 491 and the loop's attempt++: the timer of sleep(delay) fires
Wake ==
  /\ pc = "sleep"
  /\ retrying' = [retrying EXCEPT !.attempt = @ + 1]
  /\ pc' = "loop"
  /\ UNCHANGED cardVars
  /\ UNCHANGED csvVars
  /\ UNCHANGED fileVars
  /\ UNCHANGED <<password, viewport, html, network, download>>

\* lines 479-483
InitRetry ==
  /\ pc = "loop"
  /\ \E attempts \in 0..MaxAttempts, delay \in {0, 1000}, hasOnError \in BOOLEAN :
       retrying = [attempts |-> attempts, delay |-> delay, hasOnError |-> hasOnError,
                   attempt |-> 1, lastError |-> NoValue, settled |-> NoValue, log |-> <<>>]
  /\ Only("retrying")

NextRetry == RetryLoop \/ FnSettles \/ Catch \/ Wake

SpecRetry == InitRetry /\ [][NextRetry]_vars

(***************************************************************************)
(* Properties of retry.                                                    *)
(***************************************************************************)
RetryLog == retrying.log

Events(e) == SelectSeq(RetryLog, LAMBDA ev : ev.e = e)

\* fn is called for the attempts 1, 2, ... in turn, at most `attempts`
\* times, each call after the one before it has settled, none after a call
\* that resolved
CallsInTurn ==
  /\ Len(Events("call")) <= retrying.attempts
  /\ \A k \in 1..Len(Events("call")) : Events("call")[k].attempt = k
  /\ \A p \in 1..Len(RetryLog) :
       RetryLog[p].e = "call" =>
         /\ p > 1 => RetryLog[p - 1].e \in {"reject", "onError", "sleep"}
         /\ p < Len(RetryLog) => RetryLog[p + 1].e \in {"resolve", "reject"}
                                   /\ RetryLog[p + 1].attempt = RetryLog[p].attempt
  /\ \A p \in 1..Len(RetryLog) : RetryLog[p].e = "resolve" => p = Len(RetryLog)
  /\ pc = "resolved" =>
       /\ RetryLog[Len(RetryLog)].e = "resolve"
       /\ retrying.settled = RetryLog[Len(RetryLog)].value

\* onError is called once after each rejection, with the attempt's number
\* and the error `passed` makes of what fn threw
OnErrorAfterEachFailure(passed(_)) ==
  retrying.hasOnError =>
    /\ \A p \in 1..Len(RetryLog) :
         RetryLog[p].e = "reject" =>
           IF p = Len(RetryLog) THEN pc = "catch"
           ELSE /\ RetryLog[p + 1].e = "onError"
                /\ RetryLog[p + 1].attempt = RetryLog[p].attempt
                /\ RetryLog[p + 1].value = passed(RetryLog[p].value)
    /\ \A p \in 1..Len(RetryLog) :
         RetryLog[p].e = "onError" => p > 1 /\ RetryLog[p - 1].e = "reject"
    /\ \A k \in 1..Len(Events("onError")) : Events("onError")[k].attempt = k

\* a sleep lasts `delay`, follows a failed attempt that is not the last and
\* is followed by the next call: when retry has settled there is one sleep
\* between every two calls and no other
SleepsBetweenAttempts ==
  /\ \A p \in 1..Len(RetryLog) :
       RetryLog[p].e = "sleep" =>
         /\ RetryLog[p].ms = retrying.delay
         /\ RetryLog[p].attempt < retrying.attempts
         /\ p > 1 /\ RetryLog[p - 1].e \in {"reject", "onError"}
         /\ p < Len(RetryLog) =>
              RetryLog[p + 1].e = "call" /\ RetryLog[p + 1].attempt = RetryLog[p].attempt + 1
         /\ p = Len(RetryLog) => pc \in {"sleep", "loop"}
  /\ pc \in {"resolved", "rejected"} =>
       Len(Events("sleep")) = Max(0, Len(Events("call")) - 1)

\* every attempt was made and failed, and retry has rejected
AllFailed ==
  /\ pc = "rejected"
  /\ retrying.attempts >= 1
  /\ Len(Events("reject")) = retrying.attempts

\* C26 as stated: fn is called in turn and at most `attempts` times, the
\* first result ends the calls and is what retry resolves with, onError is
\* called once after each failed call with that error and the attempt
\* number, sleeps of `delay` stand only between two attempts, and when all
\* attempts fail retry rejects with the error of the last attempt.
C26_RetryAsStated ==
  /\ CallsInTurn
  /\ OnErrorAfterEachFailure(LAMBDA error : error)
  /\ SleepsBetweenAttempts
  /\ AllFailed => retrying.settled = Events("reject")[retrying.attempts].value

\* the Error that stands for a thrown value: itself, or a new Error around it
AsError(thrown) ==
  IF thrown.kind = "Error" THEN thrown
  ELSE [thrown EXCEPT !.kind = "Error", !.by = "retry", !.wraps = TRUE]

\* C26 amended: as stated, except that the error handed to onError and the
\* error retry rejects with is what fn rejected with only when that is an
\* Error, and otherwise a new Error made of it; and that an onError that
\* throws ends retry at once, which then rejects with what onError threw.
C26_Retry ==
  /\ CallsInTurn
  /\ OnErrorAfterEachFailure(AsError)
  /\ SleepsBetweenAttempts
  /\ (AllFailed /\ retrying.settled.by # "onError") =>
       retrying.settled = AsError(Events("reject")[retrying.attempts].value)
  /\ (pc = "rejected" /\ retrying.settled.by = "onError") =>
       /\ RetryLog[Len(RetryLog)].e = "onError"
       /\ retrying.settled.attempt = RetryLog[Len(RetryLog)].attempt
  /\ (pc = "rejected" /\ retrying.attempts < 1) =>
       RetryLog = <<>> /\ retrying.settled.by = "retry"

\* three attempts have failed, the second with a value that is no Error,
\* with onError called three times and two sleeps; retry has rejected
C26_Witness ==
  /\ AllFailed
  /\ retrying.attempts = 3
  /\ retrying.hasOnError
  /\ Len(Events("onError")) = 3
  /\ Len(Events("sleep")) = 2
  /\ Events("reject")[2].value.kind = "string"
  /\ Events("reject")[3].value.kind = "Error"
  /\ retrying.settled = Events("reject")[3].value

(***************************************************************************)
(* ViewportHelpers (src/src/playwright/page-helpers.ts).  `viewport.size`  *)
(* is page.viewportSize(): <<>> for null, <<[width, height]>> otherwise.   *)
(***************************************************************************)
BREAKPOINTS == [xs |-> 0, sm |-> 576, md |-> 768, lg |-> 992, xl |-> 1200, xxl |-> 1400]

\* line 638
breakpoints == <<"xs", "sm", "md", "lg", "xl", "xxl">>

\* lines 545-548: the size setBreakpoint hands to page.setViewportSize
BreakpointSize(breakpoint, height) ==
  [width |-> IF BREAKPOINTS[breakpoint] = 0 THEN 1200 ELSE BREAKPOINTS[breakpoint],
   height |-> height]

\* lines 560-572
getCurrentBreakpoint(size) ==
  IF size = <<>> THEN "lg"
  ELSE LET width == size[1].width
       IN  IF width < BREAKPOINTS.sm THEN "xs"
           ELSE IF width < BREAKPOINTS.md THEN "sm"
           ELSE IF width < BREAKPOINTS.lg THEN "md"
           ELSE IF width < BREAKPOINTS.xl THEN "lg"
           ELSE IF width < BREAKPOINTS.xxl THEN "xl"
           ELSE "xxl"

SetBreakpoint ==
  /\ pc = "page"
  /\ \E b \in 1..Len(breakpoints), height \in {800, 600, 1080} :
       viewport' = [viewport EXCEPT !.size = <<BreakpointSize(breakpoints[b], height)>>,
                                    !.set = breakpoints[b]]
  /\ pc' = "set"
  /\ UNCHANGED cardVars
  /\ UNCHANGED csvVars
  /\ UNCHANGED fileVars
  /\ UNCHANGED <<password, retrying, html, network, download>>

GetCurrentBreakpoint ==
  /\ pc \in {"page", "set"}
  /\ viewport' = [viewport EXCEPT !.current = getCurrentBreakpoint(viewport.size)]
  /\ pc' = "got"
  /\ UNCHANGED cardVars
  /\ UNCHANGED csvVars
  /\ UNCHANGED fileVars
  /\ UNCHANGED <<password, retrying, html, network, download>>

\* lines 635-639: testAtBreakpoints is called; then, for the next
\* breakpoint, setBreakpoint with the default height, or the return
TestAtBreakpoints ==
  /\ \/ pc = "page" /\ viewport' = [viewport EXCEPT !.index = 1] /\ pc' = "testing"
     \/ /\ pc = "testing"
        /\ IF viewport.index <= Len(breakpoints)
           THEN /\ viewport' = [viewport EXCEPT
                                  !.size = <<BreakpointSize(breakpoints[viewport.index], 800)>>,
                                  !.set = breakpoints[viewport.index]]
                /\ pc' = "testFn"
           ELSE /\ pc' = "tested"
                /\ UNCHANGED viewport
  /\ UNCHANGED cardVars
  /\ UNCHANGED csvVars
  /\ UNCHANGED fileVars
  /\ UNCHANGED <<password, retrying, html, network, download>>

\* line 640: testFn(breakpoint) runs, at the width the page has then
TestFn ==
  /\ pc = "testFn"
  /\ viewport' = [viewport EXCEPT
                    !.tested = Append(@, [breakpoint |-> breakpoints[viewport.index],
                                          width |-> viewport.size[1].width]),
                    !.index = @ + 1]
  /\ pc' = "testing"
  /\ UNCHANGED cardVars
  /\ UNCHANGED csvVars
  /\ UNCHANGED fileVars
  /\ UNCHANGED <<password, retrying, html, network, download>>

\* the sizes a page may have: none, or a width at or next to a breakpoint
PageSizes ==
  {<<>>} \cup
  {<<[width |-> w, height |-> h]>> :
     w \in {0, 575, 576, 767, 768, 991, 992, 1199, 1200, 1399, 1400, 1920},
     h \in {600, 800}}

InitViewport ==
  /\ pc = "page"
  /\ \E size \in PageSizes :
       viewport = [size |-> size, set |-> "none", current |-> "none",
                   tested |-> <<>>, index |-> 0]
  /\ Only("viewport")

NextViewport == SetBreakpoint \/ GetCurrentBreakpoint \/ TestAtBreakpoints \/ TestFn

SpecViewport == InitViewport /\ [][NextViewport]_vars

\* the width lies in the range of the breakpoint
WidthIn(width, b) ==
  /\ BREAKPOINTS[breakpoints[b]] <= width
  /\ b < Len(breakpoints) => width < BREAKPOINTS[breakpoints[b + 1]]

\* C27: after setBreakpoint(b) getCurrentBreakpoint() returns b, for each
\* of xs, sm, md, lg, xl, xxl; testAtBreakpoints calls testFn(b) while the
\* width lies in breakpoint b, for the six breakpoints in ascending order.
C27_BreakpointRoundTrip ==
  /\ (pc = "got" /\ viewport.set # "none") => viewport.current = viewport.set
  /\ \A k \in 1..Len(viewport.tested) :
       /\ viewport.tested[k].breakpoint = breakpoints[k]
       /\ WidthIn(viewport.tested[k].width, k)
  /\ pc = "tested" => Len(viewport.tested) = Len(breakpoints)

\* ------------------------------------------------------------------
\* src/string/html.ts: escapeHtml, decodeHtmlEntities, unescapeHtml
\* ------------------------------------------------------------------

MaxTextLen == 4

\* the named entities of decodeHtmlEntities, in the order of the object's
\* keys; a character outside the codes 32 to 126 is written as its \u escape
entities ==
  <<
     <<<<"&", "a", "m", "p", ";">>, "&">>,
     <<<<"&", "l", "t", ";">>, "<">>,
     <<<<"&", "g", "t", ";">>, ">">>,
     <<<<"&", "q", "u", "o", "t", ";">>, "\"">>,
     <<<<"&", "#", "3", "9", ";">>, "'">>,
     <<<<"&", "a", "p", "o", "s", ";">>, "'">>,
     <<<<"&", "n", "b", "s", "p", ";">>, " ">>,
     <<<<"&", "c", "o", "p", "y", ";">>, "\\u00A9">>,
     <<<<"&", "r", "e", "g", ";">>, "\\u00AE">>,
     <<<<"&", "t", "r", "a", "d", "e", ";">>, "\\u2122">>,
     <<<<"&", "m", "d", "a", "s", "h", ";">>, "\\u2014">>,
     <<<<"&", "n", "d", "a", "s", "h", ";">>, "-">>,
     <<<<"&", "h", "e", "l", "l", "i", "p", ";">>, "\\u2026">>,
     <<<<"&", "l", "s", "q", "u", "o", ";">>, "\\u2018">>,
     <<<<"&", "r", "s", "q", "u", "o", ";">>, "\\u2019">>,
     <<<<"&", "l", "d", "q", "u", "o", ";">>, "\\u201C">>,
     <<<<"&", "r", "d", "q", "u", "o", ";">>, "\\u201D">>,
     <<<<"&", "b", "u", "l", "l", ";">>, "\\u2022">>,
     <<<<"&", "m", "i", "d", "d", "o", "t", ";">>, "\\u00B7">>,
     <<<<"&", "c", "e", "n", "t", ";">>, "\\u00A2">>,
     <<<<"&", "p", "o", "u", "n", "d", ";">>, "\\u00A3">>,
     <<<<"&", "e", "u", "r", "o", ";">>, "\\u20AC">>,
     <<<<"&", "y", "e", "n", ";">>, "\\u00A5">>
  >>

\* the characters with the codes 32 to 126 (96 as its \u escape)
Ascii ==
  <<
     " ", "!", "\"", "#", "$", "%", "&", "'", "(", ")", "*", "+", ",", "-", ".", "/",
     "0", "1", "2", "3", "4", "5", "6", "7", "8", "9", ":", ";", "<", "=", ">", "?",
     "@", "A", "B", "C", "D", "E", "F", "G", "H", "I", "J", "K", "L", "M", "N", "O",
     "P", "Q", "R", "S", "T", "U", "V", "W", "X", "Y", "Z", "[", "\\", "]", "^", "_",
     "\\u0060", "a", "b", "c", "d", "e", "f", "g", "h", "i", "j", "k", "l", "m", "n", "o",
     "p", "q", "r", "s", "t", "u", "v", "w", "x", "y", "z", "{", "|", "}", "~"
  >>

\* String.fromCharCode(n)
FromCharCode(n) ==
  IF n % 65536 >= 32 /\ n % 65536 <= 126
  THEN Ascii[(n % 65536) - 31]
  ELSE "\\u" \o ToString(n % 65536)

\* s.replace(new RegExp(pat, 'g'), rep) for a pattern without special
\* characters: every occurrence, found from left to right
RECURSIVE ReplaceAll(_, _, _)
ReplaceAll(s, pat, rep) ==
  IF s = <<>> THEN <<>>
  ELSE IF StartsWith(s, pat)
       THEN <<rep>> \o ReplaceAll(SubSeq(s, Len(pat) + 1, Len(s)), pat, rep)
       ELSE <<s[1]>> \o ReplaceAll(Tail(s), pat, rep)

\* the loop over Object.entries(entities), from entry k on
RECURSIVE NamedLoop(_, _)
NamedLoop(result, k) ==
  IF k > Len(entities) THEN result
  ELSE NamedLoop(ReplaceAll(result, entities[k][1], entities[k][2]), k + 1)

HexChars ==
  <<"0", "1", "2", "3", "4", "5", "6", "7", "8", "9",
    "a", "b", "c", "d", "e", "f", "A", "B", "C", "D", "E", "F">>

\* the value of a digit in the base, or -1
DigitValue(c, base) ==
  IF \E d \in 1..10 : HexChars[d] = c
  THEN (CHOOSE d \in 1..10 : HexChars[d] = c) - 1
  ELSE IF base = 16 /\ \E d \in 11..16 : HexChars[d] = c
       THEN (CHOOSE d \in 11..16 : HexChars[d] = c) - 1
       ELSE IF base = 16 /\ \E d \in 17..22 : HexChars[d] = c
            THEN (CHOOSE d \in 17..22 : HexChars[d] = c) - 7
            ELSE -1

\* the length of the run of digits s begins with
RECURSIVE EntityDigits(_, _)
EntityDigits(s, base) ==
  IF s = <<>> \/ DigitValue(s[1], base) < 0 THEN 0
  ELSE 1 + EntityDigits(Tail(s), base)

\* parseInt(digits, base); the code unit is taken modulo 65536
RECURSIVE ParseCode(_, _, _)
ParseCode(digits, base, acc) ==
  IF digits = <<>> THEN acc
  ELSE ParseCode(Tail(digits), base,
                (acc * base + DigitValue(digits[1], base)) % 65536)

\* result.replace(/&#(\d+);/g, ...) with the prefix <<"&", "#">> and base
\* 10, result.replace(/&#x([0-9a-fA-F]+);/g, ...) with the prefix
\* <<"&", "#", "x">> and base 16
RECURSIVE NumericLoop(_, _, _)
NumericLoop(s, prefix, base) ==
  IF s = <<>> THEN <<>>
  ELSE LET rest == SubSeq(s, Len(prefix) + 1, Len(s))
           run  == EntityDigits(rest, base)
       IN IF /\ StartsWith(s, prefix)
             /\ run > 0
             /\ Len(rest) > run
             /\ rest[run + 1] = ";"
          THEN <<FromCharCode(ParseCode(SubSeq(rest, 1, run), base, 0))>>
               \o NumericLoop(SubSeq(rest, run + 2, Len(rest)), prefix, base)
          ELSE <<s[1]>> \o NumericLoop(Tail(s), prefix, base)

decodeHtmlEntities(t) ==
  NumericLoop(NumericLoop(NamedLoop(t, 1), <<"&", "#">>, 10),
              <<"&", "#", "x">>, 16)

escapeMap(char) ==
  IF char = "&" THEN <<"&", "a", "m", "p", ";">>
  ELSE IF char = "<" THEN <<"&", "l", "t", ";">>
  ELSE IF char = ">" THEN <<"&", "g", "t", ";">>
  ELSE IF char = "\"" THEN <<"&", "q", "u", "o", "t", ";">>
  ELSE IF char = "'" THEN <<"&", "#", "3", "9", ";">>
  ELSE <<char>>

\* text.replace(/[&<>"']/g, (char) => escapeMap[char])
RECURSIVE escapeHtml(_)
escapeHtml(t) ==
  IF t = <<>> THEN <<>> ELSE escapeMap(t[1]) \o escapeHtml(Tail(t))

unescapeHtml(t) == decodeHtmlEntities(t)

NoText == <<"<none>">>

EscapeHtml ==
  /\ pc = "text"
  /\ html' = [html EXCEPT !.escaped = escapeHtml(html.text)]
  /\ pc' = "escaped"
  /\ UNCHANGED cardVars
  /\ UNCHANGED csvVars
  /\ UNCHANGED fileVars
  /\ UNCHANGED <<password, retrying, viewport, network, download>>

UnescapeHtml ==
  /\ pc = "escaped"
  /\ html' = [html EXCEPT !.unescaped = unescapeHtml(html.escaped)]
  /\ pc' = "unescaped"
  /\ UNCHANGED cardVars
  /\ UNCHANGED csvVars
  /\ UNCHANGED fileVars
  /\ UNCHANGED <<password, retrying, viewport, network, download>>

\* the five characters escapeHtml handles, and the ordinary text that the
\* entities '&lt;', '&amp;', '&#39;' and '&#x3c;' are written with
HtmlAlphabet == {"&", "<", ">", "\"", "'", "l", "t", "a", ";", "#", "3", "x"}

InitHtml ==
  /\ pc = "text"
  /\ \E n \in 0..MaxTextLen : \E t \in [1..n -> HtmlAlphabet] :
       html = [text |-> t, escaped |-> NoText, unescaped |-> NoText]
  /\ Only("html")

NextHtml == EscapeHtml \/ UnescapeHtml

SpecHtml == InitHtml /\ [][NextHtml]_vars

\* C28: unescapeHtml(escapeHtml(s)) = s for every string s over &, <, >,
\* double quote, single quote and ordinary text, also when s already
\* contains entity text such as '&lt;' or '&amp;'.
C28_EscapeRoundTrip ==
  pc = "unescaped" => html.unescaped = html.text

\* ------------------------------------------------------------------
\* NetworkHelpers.collectResponses
\* ------------------------------------------------------------------

MaxResponses == 3

\* the first index k >= from at which sub occurs in s, or 0
FirstMatch(s, sub, from) ==
  LET at == {k \in from..(Len(s) - Len(sub) + 1) : SubSeq(s, k, k + Len(sub) - 1) = sub}
  IN IF at = {} THEN 0 ELSE CHOOSE k \in at : \A j \in at : k <= j

\* pattern.test(url) for a regular expression that is a literal text:
\* the result, and the lastIndex the expression has afterwards (a global
\* expression searches from its lastIndex on and moves it)
RegExpTest(pattern, url) ==
  IF pattern.global
  THEN LET k == FirstMatch(url, pattern.source, pattern.lastIndex + 1)
       IN IF k = 0
          THEN [result |-> FALSE, lastIndex |-> 0]
          ELSE [result |-> TRUE, lastIndex |-> k - 1 + Len(pattern.source)]
  ELSE [result |-> Includes(url, pattern.source), lastIndex |-> pattern.lastIndex]

\* the condition under which handler pushes the body of the response
HandlerTest(pattern, url) ==
  IF pattern.kind = "string"
  THEN [result |-> Includes(url, pattern.source), lastIndex |-> pattern.lastIndex]
  ELSE RegExpTest(pattern, url)

NoArray == <<0>>

\* collectResponses up to `await action()`: the handler is registered
CollectResponses ==
  /\ pc = "call"
  /\ network' = [network EXCEPT !.registered = TRUE]
  /\ pc' = "action"
  /\ UNCHANGED cardVars
  /\ UNCHANGED csvVars
  /\ UNCHANGED fileVars
  /\ UNCHANGED <<password, retrying, viewport, html, download>>

\* the page emits a response; a registered handler runs up to
\* `await response.json()`
Response ==
  /\ pc \in {"action", "returned", "thrown"}
  /\ Len(network.emitted) < MaxResponses
  /\ \E url \in {<<"/", "a">>, <<"/", "b">>} :
       LET id   == Len(network.emitted) + 1
           test == HandlerTest(network.pattern, url)
       IN network' =
            [network EXCEPT
               !.emitted = Append(@, [url |-> url, during |-> pc = "action"]),
               !.pattern.lastIndex =
                  IF network.registered THEN test.lastIndex ELSE @,
               !.parsing =
                  IF network.registered /\ test.result THEN @ \cup {id} ELSE @]
  /\ UNCHANGED pc
  /\ UNCHANGED cardVars
  /\ UNCHANGED csvVars
  /\ UNCHANGED fileVars
  /\ UNCHANGED <<password, retrying, viewport, html, download>>

\* response.json() of one response resolves and handler pushes the body
JsonResolves ==
  /\ pc \in {"action", "returned", "thrown"}
  /\ \E id \in network.parsing :
       network' = [network EXCEPT !.parsing = @ \ {id},
                                  !.responses = Append(@, id)]
  /\ UNCHANGED pc
  /\ UNCHANGED cardVars
  /\ UNCHANGED csvVars
  /\ UNCHANGED fileVars
  /\ UNCHANGED <<password, retrying, viewport, html, download>>

\* action() settles and collectResponses goes on after the await: when
\* action fulfilled, the handler is taken off and the array returned; when
\* action rejected, collectResponses rejects at the await
ActionSettles ==
  /\ pc = "action"
  /\ \/ /\ network' = [network EXCEPT !.registered = FALSE,
                                      !.returned = network.responses]
        /\ pc' = "returned"
     \/ /\ network' = network
        /\ pc' = "thrown"
  /\ UNCHANGED cardVars
  /\ UNCHANGED csvVars
  /\ UNCHANGED fileVars
  /\ UNCHANGED <<password, retrying, viewport, html, download>>

Patterns ==
  {[kind |-> "string", source |-> <<"a">>, global |-> FALSE, lastIndex |-> 0],
   [kind |-> "string", source |-> <<"/">>, global |-> FALSE, lastIndex |-> 0],
   [kind |-> "RegExp", source |-> <<"a">>, global |-> FALSE, lastIndex |-> 0],
   [kind |-> "RegExp", source |-> <<"/">>, global |-> TRUE, lastIndex |-> 0]}

InitNetwork ==
  /\ pc = "call"
  /\ \E pattern \in Patterns :
       network = [pattern |-> pattern, registered |-> FALSE, emitted |-> <<>>,
                  parsing |-> {}, responses |-> <<>>, returned |-> NoArray]
  /\ Only("network")

NextNetwork == CollectResponses \/ Response \/ JsonResolves \/ ActionSettles

SpecNetwork == InitNetwork /\ [][NextNetwork]_vars

\* the URL matches the pattern
UrlMatches(url) == Includes(url, network.pattern.source)

\* C29: the array collectResponses returns holds, when it is returned, the
\* parsed body of every response with a matching URL that was emitted while
\* action was running, also when a body is parsed after action completed;
\* after the call no handler of collectResponses is registered on the page.
C29_CollectsAll ==
  /\ pc = "returned" =>
       \A k \in 1..Len(network.emitted) :
          (network.emitted[k].during /\ UrlMatches(network.emitted[k].url))
             => \E j \in 1..Len(network.returned) : network.returned[j] = k
  /\ pc \in {"returned", "thrown"} => ~network.registered

\* ------------------------------------------------------------------
\* src/file/download.ts: waitForDownload
\* ------------------------------------------------------------------

MaxSize == 2

DEFAULT_OPTIONS == [timeout |-> 30000, minSize |-> 1, pollInterval |-> 100]

\* process.cwd()
Cwd == <<"/", "w">>

\* path.isAbsolute(downloadPath) ? downloadPath
\*   : path.resolve(process.cwd(), downloadPath)
AbsolutePath(downloadPath) ==
  IF StartsWith(downloadPath, <<"/">>)
  THEN downloadPath
  ELSE Cwd \o <<"/">> \o downloadPath

\* what is at the path: nothing, a regular file or a directory, with the
\* size stat reports for it
DiskStates ==
  {[kind |-> "absent", size |-> 0]} \cup
  {[kind |-> "file", size |-> n] : n \in 0..MaxSize} \cup
  {[kind |-> "directory", size |-> n] : n \in 1..MaxSize}

NoStats == [taken |-> FALSE, failed |-> FALSE, isFile |-> FALSE, size |-> 0, at |-> 0]

\* fs.promises.stat(absolutePath) at the time now: it fails when nothing
\* is at the path
Stat(disk, now) ==
  [taken |-> TRUE, failed |-> disk.kind = "absent",
   isFile |-> disk.kind = "file", size |-> disk.size, at |-> now]

\* while (Date.now() - startTime < opts.timeout), and the throw after the
\* loop
WhileTest ==
  /\ pc = "while"
  /\ IF download.now - download.startTime < download.opts.timeout
     THEN /\ pc' = "stat"
          /\ download' = download
     ELSE /\ pc' = "rejected"
          /\ download' = [download EXCEPT !.error = "Download timeout"]
  /\ UNCHANGED cardVars
  /\ UNCHANGED csvVars
  /\ UNCHANGED fileVars
  /\ UNCHANGED <<password, retrying, viewport, html, network>>

\* const stats = await fs.promises.stat(absolutePath), and the test of it
FirstStat ==
  /\ pc = "stat"
  /\ LET stats == Stat(download.disk, download.now)
     IN /\ download' = [download EXCEPT !.stats = stats, !.newStats = NoStats]
        /\ pc' = IF stats.failed THEN "sleepPoll"
                 ELSE IF stats.isFile /\ stats.size >= download.opts.minSize
                      THEN "sleep100"
                      ELSE "sleepPoll"
  /\ UNCHANGED cardVars
  /\ UNCHANGED csvVars
  /\ UNCHANGED fileVars
  /\ UNCHANGED <<password, retrying, viewport, html, network>>

\* await sleep(100)
Sleep100 ==
  /\ pc = "sleep100"
  /\ download' = [download EXCEPT !.now = @ + 100]
  /\ pc' = "newStat"
  /\ UNCHANGED cardVars
  /\ UNCHANGED csvVars
  /\ UNCHANGED fileVars
  /\ UNCHANGED <<password, retrying, viewport, html, network>>

\* const newStats = await fs.promises.stat(absolutePath), and the test of
\* it
SecondStat ==
  /\ pc = "newStat"
  /\ LET newStats == Stat(download.disk, download.now)
     IN IF ~newStats.failed /\ newStats.size = download.stats.size
        THEN /\ download' = [download EXCEPT !.newStats = newStats,
                                             !.value = download.absolutePath]
             /\ pc' = "resolved"
        ELSE /\ download' = [download EXCEPT !.newStats = newStats]
             /\ pc' = "sleepPoll"
  /\ UNCHANGED cardVars
  /\ UNCHANGED csvVars
  /\ UNCHANGED fileVars
  /\ UNCHANGED <<password, retrying, viewport, html, network>>

\* await sleep(opts.pollInterval)
SleepPoll ==
  /\ pc = "sleepPoll"
  /\ download' = [download EXCEPT !.now = @ + download.opts.pollInterval]
  /\ pc' = "while"
  /\ UNCHANGED cardVars
  /\ UNCHANGED csvVars
  /\ UNCHANGED fileVars
  /\ UNCHANGED <<password, retrying, viewport, html, network>>

\* another process writes, removes or replaces what is at the path
DiskChanges ==
  /\ pc \in {"while", "stat", "sleep100", "newStat", "sleepPoll"}
  /\ \E disk \in DiskStates \ {download.disk} :
       download' = [download EXCEPT !.disk = disk]
  /\ UNCHANGED pc
  /\ UNCHANGED cardVars
  /\ UNCHANGED csvVars
  /\ UNCHANGED fileVars
  /\ UNCHANGED <<password, retrying, viewport, html, network>>

NoPath == <<"<none>">>

\* the state after `const startTime = Date.now()`; a timeout is given with
\* every call, minSize and pollInterval are given or left to their defaults
InitDownload ==
  /\ pc = "while"
  /\ \E downloadPath \in {<<"/", "d">>, <<"d">>},
        timeout \in {<<0>>, <<200>>, <<300>>},
        minSize \in {<<>>, <<2>>},
        pollInterval \in {<<>>, <<200>>},
        disk \in DiskStates :
       download =
         [opts |-> [timeout |-> IF timeout = <<>>
                                THEN DEFAULT_OPTIONS.timeout ELSE timeout[1],
                    minSize |-> IF minSize = <<>>
                                THEN DEFAULT_OPTIONS.minSize ELSE minSize[1],
                    pollInterval |-> IF pollInterval = <<>>
                                     THEN DEFAULT_OPTIONS.pollInterval
                                     ELSE pollInterval[1]],
          absolutePath |-> AbsolutePath(downloadPath),
          startTime |-> 0, now |-> 0, disk |-> disk,
          stats |-> NoStats, newStats |-> NoStats,
          value |-> NoPath, error |-> "none"]
  /\ Only("download")

Polling == WhileTest \/ FirstStat \/ Sleep100 \/ SecondStat \/ SleepPoll

NextDownload == Polling \/ DiskChanges

\* the timers and the stat calls complete; nothing is assumed of the
\* other process
SpecDownload == InitDownload /\ [][NextDownload]_vars /\ WF_vars(Polling)

\* a regular file of at least minSize
Sufficient(stats) ==
  /\ stats.taken
  /\ ~stats.failed
  /\ stats.isFile
  /\ stats.size >= download.opts.minSize

\* the last two observations were taken before and after the sleep of
\* 100 ms and show a regular file of the same sufficient size
StablePair ==
  /\ Sufficient(download.stats)
  /\ Sufficient(download.newStats)
  /\ download.newStats.size = download.stats.size
  /\ download.newStats.at = download.stats.at + 100

\* C30: waitForDownload resolves with the absolute path only after two
\* consecutive stat observations, before and after a sleep of 100 ms, that
\* both show a regular file of the same size of at least minSize; without
\* such a pair before the timeout has elapsed the call eventually rejects
\* with a 'Download timeout' error and does not resolve.
C30_StableBeforeTimeout ==
  /\ [](pc = "resolved" =>
          /\ StablePair
          /\ download.newStats.at - download.startTime < download.opts.timeout)
  /\ <>(pc \in {"resolved", "rejected"})
  /\ [](pc = "rejected" => download.error = "Download timeout")

====
